---- MODULE Spec2Model ----
(***************************************************************************)
(* Verification model of the X-Plane MFD flight calculators                *)
(* (CsSzili/XplaneFlightData, compliant/ tree).                            *)
(*                                                                         *)
(* Five specifications share the variables below:                          *)
(*   SpecBuf    - the SensorHistoryBuffer ring buffer under add_reading    *)
(*   SpecBinom  - binomial_coefficient, statement by statement             *)
(*   Spec       - the entry points (main) of the five calculators          *)
(*   SpecEngine - the calculation functions, each called on its own        *)
(*   SpecTest   - the output comparison utility (testcase.cpp)             *)
(*                                                                         *)
(* Numbers.  A double read from the command line is held as an integer     *)
(* count of hundredths (25 is 2500, -273.15 is -27315); every token of     *)
(* the model has at most two fraction digits, so the conversion is exact.  *)
(* A uint64_t is held as four 16-bit limbs, least significant first, so    *)
(* that a wrap modulo 2^64 is the loss of the fifth limb.                  *)
(***************************************************************************)
EXTENDS Integers, Sequences, FiniteSets, TLC

VARIABLES
    \* ---- SensorHistoryBuffer (flight_calculator.cpp) ----
    data,          \* std::array<double, max_ias_history>, slots 0..19
    head_index,    \* int32_t head_index
    current_size,  \* int32_t current_size
    hist,          \* ghost: every value passed to add_reading, oldest first
    gen,           \* ghost: which stream of readings this run inserts
    \* ---- binomial_coefficient (flight_calculator.cpp) ----
    bn,            \* uint32_t n
    bk,            \* uint32_t k (the function overwrites it with n - k)
    bk0,           \* ghost: k as passed by the caller
    bi,            \* uint32_t i, the loop counter
    bresult,       \* uint64_t result, four 16-bit limbs
    bpc,           \* position inside binomial_coefficient
    bwrapped,      \* ghost: some product result * (n - k + i) exceeded 2^64 - 1
    \* ---- one run of a calculator's main() ----
    prog,          \* which calculator runs ("none": no process)
    argv,          \* argv[1 .. argc-1], each a token
    long64,        \* whether the build's long has 64 bits (LP64) or 32
    pc,            \* position inside main
    vals,          \* the doubles parse_double has stored so far, in order
    force_error,   \* int32_t force_error (density altitude)
    fill_i,        \* int32_t i of main's fill loop (flight)
    out,           \* standard output: the result blocks printed
    err,           \* the error stream: the diagnostics printed
    calls,         \* ghost: the engine invocations, in order
    exit_code,     \* <<status>> once main has returned, <<>> before
    \* ---- one run of testcase's main() (testcase.cpp) ----
    cin,           \* std::cin: the text piped in and the stream's state
    file,          \* the file argv[1] names: whether it exists, its text
    ss,            \* std::stringstream ss
    line_a,        \* std::string a
    line_b,        \* std::string b
    ret            \* bool ret

bufvars == <<data, head_index, current_size, hist, gen>>
binvars == <<bn, bk, bk0, bi, bresult, bpc, bwrapped>>
runvars == <<prog, argv, long64, pc, vals, force_error, fill_i, out, err,
             calls, exit_code>>
testvars == <<cin, file, ss, line_a, line_b, ret>>
vars == <<bufvars, binvars, runvars, testvars>>

(***************************************************************************)
(* SensorHistoryBuffer                                                     *)
(***************************************************************************)

\* const int32_t max_ias_history = 20;
max_ias_history == 20

\* Number of add_reading calls a run of SpecBuf makes at most.
MaxReadings == 23

\* What an unwritten slot of `data` may hold: the array has no initializer,
\* so a default-constructed buffer starts with indeterminate contents.
Garbage == {-1, -2}

\* A reading is counted in ticks of 2^-23 knot: a whole number of ticks
\* below 2^31 is a double.
sample_exponent == -23
Ticks == 8388608

\* The streams of readings a run inserts.  add_reading never inspects the
\* value it stores, so a stream of pairwise distinct values ("ramp") tells
\* every insertion apart; "synthetic" is the stream main() generates, "flat"
\* repeats one value and "dip" is a steady speed whose third reading is two
\* ticks lower.
Generators == {"ramp", "synthetic", "flat", "dip"}

\* double new_reading = 150.0 + (i % 7) - 3.0;   (main's fill loop)
synthetic_reading_steady(i) == 150 * Ticks
synthetic_reading(i) == (150 + (i % 7) - 3) * Ticks

Reading(g, i) ==
    CASE g = "ramp"      -> (100 + i) * Ticks
      [] g = "synthetic" -> synthetic_reading(i)
      [] g = "dip"       -> IF i = 2 THEN 64 * Ticks + 4 ELSE 64 * Ticks + 6
      [] OTHER           -> 150 * Ticks

\* head_index = (head_index + 1) % max_ias_history;
next_head_stuck(h) == IF h + 1 < max_ias_history THEN h + 1 ELSE h
next_head(h) == (h + 1) % max_ias_history

\* if (current_size < max_ias_history) current_size++;
next_size_unbounded(s) == s + 1
next_size(s) == IF s < max_ias_history THEN s + 1 ELSE s

\* void add_reading(double new_ias): the whole method.
add_reading(new_ias) ==
    /\ data' = [data EXCEPT ![head_index] = new_ias]
    /\ head_index' = next_head(head_index)
    /\ current_size' = next_size(current_size)
    /\ hist' = Append(hist, new_ias)

\* int32_t get_size() const
get_size == current_size

\* const double* get_data_ptr() const: the array itself, from slot 0.
get_data_ptr == data

\* The view a caller reads: get_data_ptr()[0 .. get_size()-1], as a sequence.
View == [j \in 1..get_size |-> get_data_ptr[j - 1]]

\* SensorHistoryBuffer ias_buffer;  (head_index = 0, current_size = 0)
BufStart ==
    /\ \E g \in Garbage : data = [i \in 0..(max_ias_history - 1) |-> g]
    /\ head_index = 0
    /\ current_size = 0
    /\ hist = <<>>
    /\ gen \in Generators

\* One call ias_buffer.add_reading(v) by the harness.
BufAdd ==
    /\ Len(hist) < MaxReadings
    /\ add_reading(Reading(gen, Len(hist)))
    /\ UNCHANGED gen

\* The buffer before main() constructs it (the other specifications).
BufIdle ==
    /\ data = [i \in 0..(max_ias_history - 1) |-> -1]
    /\ head_index = 0
    /\ current_size = 0
    /\ hist = <<>>
    /\ gen = "synthetic"

(***************************************************************************)
(* Helpers for the buffer claims                                           *)
(***************************************************************************)

Min(a, b) == IF a < b THEN a ELSE b

\* The last m elements of a sequence, in order.
LastOf(s, m) == SubSeq(s, Len(s) - m + 1, Len(s))

\* Multiset of a sequence, as a function value -> count over its range.
RangeOf(s) == {s[i] : i \in 1..Len(s)}
CountIn(s, v) == Cardinality({i \in 1..Len(s) : s[i] = v})
SameMultiset(s, t) ==
    /\ Len(s) = Len(t)
    /\ \A v \in RangeOf(s) \cup RangeOf(t) : CountIn(s, v) = CountIn(t, v)

\* C1: after N add_reading calls on a fresh buffer get_size() = min(N, 20)
\* and the valid slots hold, as a multiset, exactly the min(N, 20) most
\* recently inserted values.
C1_SizeAndContents ==
    /\ get_size = Min(Len(hist), max_ias_history)
    /\ SameMultiset(View, LastOf(hist, Min(Len(hist), max_ias_history)))

\* C1 witness: more than 20 pairwise distinct readings were inserted, so the
\* oldest ones have been overwritten.
C1_Witness ==
    /\ gen = "ramp"
    /\ Len(hist) > max_ias_history + 1
    /\ hist[1] \notin RangeOf(View)

\* C2 (as claimed): the view lists the valid samples in insertion order,
\* oldest first, also after the buffer has wrapped.
C2_ViewInInsertionOrder ==
    View = LastOf(hist, Min(Len(hist), max_ias_history))

\* The valid samples oldest first, read through the ring: the oldest valid
\* sample sits current_size slots behind head_index.
OldestFirst ==
    [j \in 1..current_size |->
        data[(head_index + max_ias_history - current_size + (j - 1))
                % max_ias_history]]

\* C2 (amended): the view is in insertion order while at most 20 readings
\* were inserted; after a wrap it is that order rotated, the oldest sample
\* being at index head_index and the newest at index head_index - 1.
C2_ViewIsRotation ==
    /\ Len(hist) <= max_ias_history => View = hist
    /\ OldestFirst = LastOf(hist, Min(Len(hist), max_ias_history))
    /\ Len(hist) > max_ias_history =>
          /\ View[head_index + 1] = hist[Len(hist) - max_ias_history + 1]
          /\ View[((head_index + max_ias_history - 1) % max_ias_history) + 1]
                = hist[Len(hist)]

\* C2 witness: a wrapped buffer whose view is not in insertion order.
C2_Witness ==
    /\ Len(hist) > max_ias_history
    /\ View # LastOf(hist, max_ias_history)
    /\ View[1] = hist[Len(hist)]

(***************************************************************************)
(* 64-bit unsigned arithmetic on 16-bit limbs                              *)
(***************************************************************************)

Base == 65536

\* A small non-negative integer as a number of `len` limbs.
RECURSIVE Limbs(_, _)
Limbs(x, len) ==
    IF len = 0 THEN <<>> ELSE <<x % Base>> \o Limbs(x \div Base, len - 1)

\* a * m + carry for a limb sequence a and a small m: Len(a) + 1 limbs, exact.
RECURSIVE MulSmall(_, _, _)
MulSmall(a, m, carry) ==
    IF a = <<>> THEN <<carry>>
    ELSE LET t == Head(a) * m + carry
         IN  <<t % Base>> \o MulSmall(Tail(a), m, t \div Base)

\* The quotient of a limb sequence by a small d, most significant limb first
\* in the recursion; rem is the running remainder.
RECURSIVE DivSmall(_, _, _)
DivSmall(a, d, rem) ==
    IF a = <<>> THEN <<>>
    ELSE LET n == Len(a)
             t == rem * Base + a[n]
         IN  DivSmall(SubSeq(a, 1, n - 1), d, t % d) \o <<t \div d>>

\* a + b + carry for limb sequences of equal length (the top carry is dropped;
\* the callers leave room for it).
RECURSIVE AddLimbs(_, _, _)
AddLimbs(a, b, carry) ==
    IF a = <<>> THEN <<>>
    ELSE LET t == Head(a) + Head(b) + carry
         IN  <<t % Base>> \o AddLimbs(Tail(a), Tail(b), t \div Base)

\* uint64_t: the low four limbs of an exact value (reduction modulo 2^64).
Trunc64(a) == SubSeq(a, 1, 4)

\* Whether an exact five-limb product does not fit 64 bits.
Exceeds64(a) == a[5] # 0

\* a < b for limb sequences of equal length.
RECURSIVE LimbsLess(_, _)
LimbsLess(a, b) ==
    IF a = <<>> THEN FALSE
    ELSE LET n == Len(a)
         IN  \/ a[n] < b[n]
             \/ a[n] = b[n] /\ LimbsLess(SubSeq(a, 1, n - 1), SubSeq(b, 1, n - 1))

(***************************************************************************)
(* double arithmetic on non-negative values                                *)
(*                                                                         *)
(* A natural number is a limb sequence of any length; a double is a record *)
(* [m, e] of value m * 2^e whose m has at most 53 significant bits.  Every *)
(* operation rounds its exact result to the nearest such value, ties to    *)
(* the even significand, as the build's SSE2 arithmetic does.              *)
(***************************************************************************)

\* The significand of a double has 53 bits.
mantissa_bits == 53

\* Spare bits a quotient is computed with before it is rounded.
quotient_bits == 64

\* Limbs per step of a shift.
limb_bits == 16

Max(a, b) == IF a > b THEN a ELSE b

\* A limb sequence without its high zero limbs.
RECURSIVE Trim(_)
Trim(a) ==
    IF a = <<>> \/ a[Len(a)] # 0 THEN a ELSE Trim(SubSeq(a, 1, Len(a) - 1))

RECURSIVE BitLen(_)
BitLen(x) == IF x = 0 THEN 0 ELSE 1 + BitLen(x \div 2)

RECURSIVE Pow2(_)
Pow2(k) == IF k = 0 THEN 1 ELSE 2 * Pow2(k - 1)

Zeros(k) == [i \in 1..k |-> 0]

\* The number of significant bits of a natural number.
NatBits(a) ==
    LET t == Trim(a)
    IN  IF t = <<>> THEN 0 ELSE limb_bits * (Len(t) - 1) + BitLen(t[Len(t)])

\* a + b
AddNat(a, b) ==
    LET n == Max(Len(a), Len(b)) + 1
    IN  Trim(AddLimbs(a \o Zeros(n - Len(a)), b \o Zeros(n - Len(b)), 0))

\* a - b for a >= b, limb by limb with a borrow.
RECURSIVE SubLimbs(_, _, _)
SubLimbs(a, b, borrow) ==
    IF a = <<>> THEN <<>>
    ELSE LET t == Head(a) - Head(b) - borrow
         IN  IF t < 0 THEN <<t + Base>> \o SubLimbs(Tail(a), Tail(b), 1)
             ELSE <<t>> \o SubLimbs(Tail(a), Tail(b), 0)

SubNat(a, b) == Trim(SubLimbs(a, b \o Zeros(Len(a) - Len(b)), 0))

\* a < b
LessNat(a, b) ==
    LET x == Trim(a)
        y == Trim(b)
    IN  \/ Len(x) < Len(y)
        \/ Len(x) = Len(y) /\ LimbsLess(x, y)

\* a * 2^k
ShiftLeft(a, k) ==
    Trim(Zeros(k \div limb_bits) \o MulSmall(a, Pow2(k % limb_bits), 0))

\* floor(a / 2^k)
ShiftRight(a, k) ==
    IF k \div limb_bits >= Len(a) THEN <<>>
    ELSE Trim(DivSmall(SubSeq(a, k \div limb_bits + 1, Len(a)),
                       Pow2(k % limb_bits), 0))

\* Whether a is a multiple of 2^k.
LowBitsZero(a, k) == ShiftLeft(ShiftRight(a, k), k) = Trim(a)

\* Whether the lowest bit of a is set.
OddNat(a) == a # <<>> /\ a[1] % 2 = 1

\* a * b, one limb of b at a time (a limb is multiplied as two bytes).
RECURSIVE MulNat(_, _)
MulNat(a, b) ==
    IF b = <<>> THEN <<>>
    ELSE LET lo == MulSmall(a, Head(b) % 256, 0)
             hi == MulSmall(MulSmall(a, Head(b) \div 256, 0), 256, 0)
         IN  AddNat(AddNat(lo, hi), <<0>> \o MulNat(a, Tail(b)))

\* The double nearest to m * 2^e (+ a little more when sticky), ties to even.
fl(m, e, sticky) ==
    LET d == NatBits(m) - mantissa_bits
    IN  IF d <= 0 THEN [m |-> Trim(m), e |-> e]
        ELSE LET q     == ShiftRight(m, d)
                 guard == OddNat(ShiftRight(m, d - 1))
                 rest  == sticky \/ ~LowBitsZero(m, d - 1)
                 up    == guard /\ (rest \/ OddNat(q))
             IN  [m |-> IF up THEN AddNat(q, <<1>>) ELSE q, e |-> e + d]

\* The significand of x counted in units of 2^e, for e <= x.e.
Aligned(x, e) == ShiftLeft(x.m, x.e - e)

dbl_less(x, y) ==
    LET e == IF x.e < y.e THEN x.e ELSE y.e
    IN  LessNat(Aligned(x, e), Aligned(y, e))

\* x + y
dbl_add(x, y) ==
    LET e == IF x.e < y.e THEN x.e ELSE y.e
    IN  fl(AddNat(Aligned(x, e), Aligned(y, e)), e, FALSE)

\* |x - y|
dbl_distance(x, y) ==
    LET e == IF x.e < y.e THEN x.e ELSE y.e
    IN  IF dbl_less(x, y) THEN fl(SubNat(Aligned(y, e), Aligned(x, e)), e, FALSE)
        ELSE fl(SubNat(Aligned(x, e), Aligned(y, e)), e, FALSE)

\* x * y
dbl_mul(x, y) == fl(MulNat(x.m, y.m), x.e + y.e, FALSE)

\* x / n for an integer n in 1 .. 32767
dbl_div_int(x, n) ==
    LET num == ShiftLeft(x.m, quotient_bits)
        q   == Trim(DivSmall(num, n, 0))
    IN  fl(q, x.e - quotient_bits, Trim(MulSmall(q, n, 0)) # num)

\* floor(scale * x) as an integer, for a result below 2^31.
dbl_scaled(x, scale) ==
    LET p == Trim(MulSmall(x.m, scale, 0))
        t == IF x.e < 0 THEN ShiftRight(p, -x.e) ELSE ShiftLeft(p, x.e)
    IN  IF t = <<>> THEN 0
        ELSE IF Len(t) = 1 THEN t[1]
        ELSE t[1] + Base * t[2]

(***************************************************************************)
(* binomial_coefficient                                                    *)
(***************************************************************************)

\* Largest n the binomial specification draws.
MaxN == 64

\* if (k > n - k) k = n - k;
smaller_k(n, k) == IF k > n - k THEN n - k ELSE k

\* else if (k == 1) result = n;
k_is_one_result_off(n) == Limbs(n + 1, 4)
k_is_one_result(n) == Limbs(n, 4)

\* The exact product result * (n - k + i), before uint64_t drops its top.
loop_product(result, n, k, i) == MulSmall(result, n - k + i, 0)

\* result = result * (n - k + i) / i;   in uint64_t
loop_body(result, n, k, i) ==
    DivSmall(Trunc64(loop_product(result, n, k, i)), i, 0)

\* for (uint32_t i = 1; i <= k; ++i) ...   from iteration i to the end
RECURSIVE loop_from(_, _, _, _)
loop_from(result, n, k, i) ==
    IF i <= k
    THEN LET next == loop_body(result, n, k, i)
         IN  \* the test makes TLC compute this iteration before the next
             IF Len(next) = 4 THEN loop_from(next, n, k, i + 1) ELSE next
    ELSE result

\* uint64_t binomial_coefficient(uint32_t n, uint32_t k): the value returned.
binomial_coefficient(n, k) ==
    IF k > n THEN Limbs(0, 4)
    ELSE IF k = 0 \/ k = n THEN Limbs(1, 4)
    ELSE IF k = 1 THEN k_is_one_result(n)
    ELSE loop_from(Limbs(1, 4), n, smaller_k(n, k), 1)

\* The caller's arguments.
BinomStart ==
    /\ bn \in 0..MaxN
    /\ bk \in 0..(MaxN + 1)
    /\ bk0 = bk
    /\ bi = 0
    /\ bresult = Limbs(0, 4)
    /\ bpc = "entry"
    /\ bwrapped = FALSE

\* No call of binomial_coefficient in progress (the other specifications).
BinomIdle ==
    /\ bn = 0 /\ bk = 0 /\ bk0 = 0 /\ bi = 0
    /\ bresult = Limbs(0, 4)
    /\ bpc = "idle"
    /\ bwrapped = FALSE

\* The if / else-if chain that answers without the loop.
BinomDirect ==
    /\ bpc = "entry"
    /\ bk > bn \/ bk = 0 \/ bk = bn \/ bk = 1
    /\ bresult' = binomial_coefficient(bn, bk)
    /\ bpc' = "return"
    /\ UNCHANGED <<bn, bk, bk0, bi, bwrapped>>

\* The else branch up to the loop header: k reduced, result = 1, i = 1.
BinomEnterLoop ==
    /\ bpc = "entry"
    /\ ~(bk > bn \/ bk = 0 \/ bk = bn \/ bk = 1)
    /\ bk' = smaller_k(bn, bk)
    /\ bresult' = Limbs(1, 4)
    /\ bi' = 1
    /\ bpc' = "loop"
    /\ UNCHANGED <<bn, bk0, bwrapped>>

\* One iteration of the loop.
BinomIter ==
    /\ bpc = "loop"
    /\ bi <= bk
    /\ bwrapped' = (bwrapped \/ Exceeds64(loop_product(bresult, bn, bk, bi)))
    /\ bresult' = loop_body(bresult, bn, bk, bi)
    /\ bi' = bi + 1
    /\ UNCHANGED <<bn, bk, bk0, bpc>>

\* The loop condition fails: return result.
BinomExit ==
    /\ bpc = "loop"
    /\ bi > bk
    /\ bpc' = "return"
    /\ UNCHANGED <<bn, bk, bk0, bi, bresult, bwrapped>>

(***************************************************************************)
(* Command-line tokens and their conversion (xplane_mfd_calc.h)            *)
(*                                                                         *)
(* A token is a sequence of characters.  The model's tokens are written    *)
(* with digits, '-', '.' and the letter 'x'; none has an exponent, a hex   *)
(* prefix, leading white space, "inf" or "nan", and none has more than two *)
(* fraction digits, so strtod's value is an exact number of hundredths.    *)
(***************************************************************************)

Digits == {"0", "1", "2", "3", "4", "5", "6", "7", "8", "9"}

DigitVal(c) ==
    CASE c = "0" -> 0 [] c = "1" -> 1 [] c = "2" -> 2 [] c = "3" -> 3
      [] c = "4" -> 4 [] c = "5" -> 5 [] c = "6" -> 6 [] c = "7" -> 7
      [] c = "8" -> 8 [] c = "9" -> 9

\* The first position at or after p that holds no digit (Len(s) + 1 when the
\* digits run to the terminating '\0').
RECURSIVE DigitsEnd(_, _)
DigitsEnd(s, p) ==
    IF p <= Len(s) /\ s[p] \in Digits THEN DigitsEnd(s, p + 1) ELSE p

\* The decimal value of the digits s[p .. q-1], continuing from acc.
RECURSIVE DigitsValue(_, _, _, _)
DigitsValue(s, p, q, acc) ==
    IF p >= q THEN acc ELSE DigitsValue(s, p + 1, q, acc * 10 + DigitVal(s[p]))

\* Hundredths per unit: the scale of every double of the model.
Centi == 100

\* strtod(str, &end): [value, end], value in hundredths, end the position of
\* the first character not consumed; end = 1 (= str) when nothing converts.
strtod(s) ==
    LET neg    == Len(s) >= 1 /\ s[1] = "-"
        p1     == IF neg THEN 2 ELSE 1
        e1     == DigitsEnd(s, p1)
        hasDot == e1 <= Len(s) /\ s[e1] = "."
        e2     == IF hasDot THEN DigitsEnd(s, e1 + 1) ELSE e1
        nInt   == e1 - p1
        nFrac  == IF hasDot THEN e2 - (e1 + 1) ELSE 0
        whole  == DigitsValue(s, p1, e1, 0)
        frac   == IF nFrac = 0 THEN 0
                  ELSE IF nFrac = 1 THEN 10 * DigitVal(s[e1 + 1])
                  ELSE DigitsValue(s, e1 + 1, e1 + 3, 0)
        mag    == whole * Centi + frac
    IN  IF nInt + nFrac = 0
        THEN [value |-> 0, end |-> 1]
        ELSE [value |-> IF neg THEN -mag ELSE mag, end |-> e2]

\* bool parse_double(const char* str, double& result): result is assigned in
\* either case; the return value is (end != str && *end == '\0').
parse_double_lenient(s) ==
    LET r == strtod(s)
    IN  [ok |-> r.end # 1, value |-> r.value]
parse_double(s) ==
    LET r == strtod(s)
    IN  [ok |-> r.end # 1 /\ r.end = Len(s) + 1, value |-> r.value]

\* The low 32 bits of the decimal number s[p .. q-1], as limbs <<lo, hi>>.
RECURSIVE DigitsLow32(_, _, _, _)
DigitsLow32(s, p, q, acc) ==
    IF p >= q THEN acc
    ELSE LET lo == acc[1] * 10 + DigitVal(s[p])
             hi == acc[2] * 10 + lo \div Base
         IN  DigitsLow32(s, p + 1, q, <<lo % Base, hi % Base>>)

\* Whether the decimal number s[p .. q-1] exceeds 2^31 - 1; acc is the value
\* so far, kept at most 2^31 - 1.
RECURSIVE DigitsOver31(_, _, _, _)
DigitsOver31(s, p, q, acc) ==
    IF p >= q THEN FALSE
    ELSE LET d == DigitVal(s[p])
         IN  IF acc > 214748364 \/ (acc = 214748364 /\ d > 7) THEN TRUE
             ELSE DigitsOver31(s, p + 1, q, acc * 10 + d)

\* static_cast<int32_t>: two 16-bit limbs read as a two's-complement number.
ToInt32(w) ==
    IF w[2] >= 32768 THEN (w[2] - Base) * Base + w[1] ELSE w[2] * Base + w[1]

\* The two's-complement negation of a 32-bit word.
Neg32(w) ==
    LET lo == (Base - w[1]) % Base
        hi == (Base - w[2] - (IF w[1] = 0 THEN 0 ELSE 1)) % Base
    IN  <<lo, (hi + Base) % Base>>

\* strtol(str, &end, 10) followed by static_cast<int32_t>(value).  A 64-bit
\* long holds every token of the model (at most 18 digits) and the cast keeps
\* its low 32 bits; a 32-bit long saturates at LONG_MAX / LONG_MIN.
strtol_int32(s, wide) ==
    LET neg  == Len(s) >= 1 /\ s[1] = "-"
        p1   == IF neg THEN 2 ELSE 1
        e1   == DigitsEnd(s, p1)
        low  == DigitsLow32(s, p1, e1, <<0, 0>>)
        over == DigitsOver31(s, p1, e1, 0)
        v    == IF wide
                THEN ToInt32(IF neg THEN Neg32(low) ELSE low)
                ELSE IF over THEN (IF neg THEN -2147483647 - 1 ELSE 2147483647)
                ELSE (IF neg THEN -ToInt32(low) ELSE ToInt32(low))
    IN  IF e1 = p1
        THEN [value |-> 0, end |-> 1]
        ELSE [value |-> v, end |-> e1]

\* bool parse_int32(const char* str, int32_t& result): result is assigned
\* only on success.
parse_int32(s, wide, old) ==
    LET r  == strtol_int32(s, wide)
        ok == r.end # 1 /\ r.end = Len(s) + 1
    IN  [ok |-> ok, value |-> IF ok THEN r.value ELSE old]

(***************************************************************************)
(* Calculation engines                                                     *)
(*                                                                         *)
(* An engine's result records its arguments, the branch it took and every  *)
(* floating-point division it executed, each with whether its denominator  *)
(* is exactly zero.  Angles and speeds are in hundredths; a constant that  *)
(* needs more digits carries its scale in its name.                        *)
(*                                                                         *)
(* Facts of IEEE-754 double arithmetic used below:                         *)
(*  - cos(x) and tan(x) of a double x are never exactly zero unless x = 0  *)
(*    (no double is a multiple of pi/2), so 1.0 / cos(bank_rad) never has  *)
(*    a zero denominator, also at bank = 90;                               *)
(*  - a product of two non-zero doubles of the magnitudes met here is      *)
(*    non-zero, and x + 273.15 is zero exactly when x is -273.15.          *)
(***************************************************************************)

\* xplane_mfd_calc.h
gravity_e5 == 980665
nm_to_ft == 607612

\* turn_calculator.cpp
meters_per_nm == 1852

\* vnav_calculator.cpp
min_distance_nm == 1
min_groundspeed_kts == 100
min_vs_for_time_calc == 100
zero_distance == 0

\* density_altitude_calculator.cpp
kelvin_offset == 27315
min_ias_for_ratio == 1000
min_altitude_ft == -200000
max_altitude_ft == 6000000
min_temperature_c == -6000
max_temperature_c == 6000

\* wind calculator
wind_calm_threshold == 0

\* flight_calculator.cpp
energy_rate_divisor == 10127
min_history_for_stats == 2

Abs(x) == IF x < 0 THEN -x ELSE x

\* x / scale to the nearest integer (the scale is positive).
Rounded(x, scale) == (2 * x + scale) \div (2 * scale)

Division(site, zero) == [site |-> site, zero |-> zero]

\* Ten-thousandths per unit: the scale of every sine, cosine and tangent.
TrigScale == 10000

\* sin of 0, 1, ..., 90 degrees, in ten-thousandths.
SinTable ==
    << 0, 175, 349, 523, 698, 872, 1045, 1219, 1392, 1564,
       1736, 1908, 2079, 2250, 2419, 2588, 2756, 2924, 3090, 3256,
       3420, 3584, 3746, 3907, 4067, 4226, 4384, 4540, 4695, 4848,
       5000, 5150, 5299, 5446, 5592, 5736, 5878, 6018, 6157, 6293,
       6428, 6561, 6691, 6820, 6947, 7071, 7193, 7314, 7431, 7547,
       7660, 7771, 7880, 7986, 8090, 8192, 8290, 8387, 8480, 8572,
       8660, 8746, 8829, 8910, 8988, 9063, 9135, 9205, 9272, 9336,
       9397, 9455, 9511, 9563, 9613, 9659, 9703, 9744, 9781, 9816,
       9848, 9877, 9903, 9925, 9945, 9962, 9976, 9986, 9994, 9998,
       10000 >>

\* sin(a * deg_to_rad) for a in [0, 90] degrees given in hundredths, between
\* the tabulated degrees by linear interpolation.
sin_quadrant(a) ==
    LET d == a \div Centi
        f == a % Centi
    IN  IF f = 0 THEN SinTable[d + 1]
        ELSE SinTable[d + 1] + ((SinTable[d + 2] - SinTable[d + 1]) * f) \div Centi

\* sin(angle * deg_to_rad), cos(angle * deg_to_rad) for any angle in hundredths
\* of a degree, in ten-thousandths.  At the multiples of 90 degrees the
\* library returns 1.2e-16 or 6.1e-17 where these return 0; the operators
\* that depend on the sign there (cos_positive, tan_positive) say so.
sin_deg(angle) ==
    LET m == angle % (360 * Centi)
    IN  IF m <= 90 * Centi THEN sin_quadrant(m)
        ELSE IF m <= 180 * Centi THEN sin_quadrant(180 * Centi - m)
        ELSE IF m <= 270 * Centi THEN -sin_quadrant(m - 180 * Centi)
        ELSE -sin_quadrant(360 * Centi - m)
cos_deg(angle) == sin_deg(angle + 90 * Centi)

\* fabs(tan(bank_deg * deg_to_rad)) < min_tan_threshold for a bank angle in
\* hundredths of a degree: tan is below 0.001 within 0.0573 degrees of a
\* multiple of 180 (tan(0.05 deg) = 0.00087, tan(0.06 deg) = 0.00105).
tan_below_threshold_zero_only(bank_deg) == bank_deg % 18000 = 0
tan_below_threshold(bank_deg) ==
    LET r == bank_deg % 18000 IN r <= 5 \/ r >= 17995

\* cos(bank_deg * deg_to_rad) > 0: within 90 degrees of a multiple of 360
\* (the cosine of the double nearest pi/2 is +6.1e-17, of 3pi/2 -1.8e-16).
cos_positive(bank_deg) ==
    LET r == Abs(bank_deg) % 36000 IN r <= 9000 \/ r > 27000

\* tan(bank_deg * deg_to_rad) > 0 where it is not below the threshold: the
\* first and third quadrants, and the odd multiples of 90 degrees themselves
\* (the tangent of the double nearest pi/2 is +1.6e16, of 3pi/2 +5.4e15).
tan_positive(bank_deg) == bank_deg % (180 * Centi) <= 90 * Centi

\* turn_calculator.cpp: the sentinels, in hundredths.
infinite_radius_nm == 99990
infinite_radius_ft == 99990000
zero_turn_rate == 0
infinite_time == 99990

\* tan of the standard-rate bank per hundredth of a knot, in 1e-9:
\* standard_rate * deg_to_rad * kts_to_ms / gravity = 0.0027467 per knot.
std_rate_tan_per_kt == 27467

\* atan(x) * rad_to_deg for x in ten-thousandths, to the whole degree below
\* (in hundredths); atan is odd.
atan_deg(x) ==
    LET ax == Abs(x)
        d  == CHOOSE e \in 0..90 :
                 /\ e = 90 \/ SinTable[e + 2] * TrigScale > ax * SinTable[90 - e]
                 /\ \A g \in 0..(e - 1) :
                        SinTable[g + 2] * TrigScale <= ax * SinTable[90 - g]
    IN  IF x < 0 THEN -(d * Centi) ELSE d * Centi

\* result.load_factor = 1.0 / cos(phi_rad), as the quotient it is.
load_factor(bank_deg) == [num |-> TrigScale, den |-> cos_deg(bank_deg)]

\* atan((std_rate_rad_s * v_ms) / gravity) * rad_to_deg
standard_rate_bank(tas_kts) ==
    atan_deg((tas_kts * std_rate_tan_per_kt) \div (10 * TrigScale))

\* radius_m = (v_ms * v_ms) / (gravity * tan_phi), as sign and magnitude:
\* the magnitude is kts_to_ms^2 / gravity times num / den, with
\* num = tas_kts^2 * |cos| (four limbs) and den = |sin|.
radius_m_inverted(tas_kts, bank_deg) ==
    [sign |-> IF tas_kts = 0 THEN 0 ELSE IF tan_positive(bank_deg) THEN 1 ELSE -1,
     num  |-> MulSmall(MulSmall(Limbs(Abs(tas_kts), 2), Abs(tas_kts), 0),
                       Abs(sin_deg(bank_deg)), 0),
     den  |-> Abs(cos_deg(bank_deg))]
radius_m(tas_kts, bank_deg) ==
    [sign |-> IF tas_kts = 0 THEN 0 ELSE IF tan_positive(bank_deg) THEN 1 ELSE -1,
     num  |-> MulSmall(MulSmall(Limbs(Abs(tas_kts), 2), Abs(tas_kts), 0),
                       Abs(cos_deg(bank_deg)), 0),
     den  |-> Abs(sin_deg(bank_deg))]

\* TurnData calculate_turn_performance(tas_kts, bank_deg, course_change_deg)
calculate_turn_performance(tas_kts, bank_deg, course_change_deg) ==
    LET wings_level == tan_below_threshold(bank_deg)
        common ==
            [fn          |-> "calculate_turn_performance",
             args        |-> <<tas_kts, bank_deg, course_change_deg>>,
             wings_level |-> wings_level,
             load_factor |-> load_factor(bank_deg),
             standard_rate_bank |-> standard_rate_bank(tas_kts),
             divisions   |->
                <<Division("1.0 / cos(phi_rad)", FALSE)>>
                \o (IF wings_level THEN <<>>
                    ELSE <<Division("(v_ms * v_ms) / (gravity * tan_phi)", FALSE),
                           Division("radius_m / meters_per_nm", meters_per_nm = 0),
                           Division("(gravity * tan_phi) / v_ms", tas_kts = 0),
                           Division("lead_m / meters_per_nm", meters_per_nm = 0),
                           \* executed only when fabs(turn_rate_dps) > 0.01
                           Division("course_change_deg / turn_rate_dps", FALSE)>>)
                \o <<Division("(std_rate_rad_s * v_ms) / gravity", gravity_e5 = 0)>>]
    IN  IF wings_level
        THEN [radius_nm        |-> infinite_radius_nm,
              radius_ft        |-> infinite_radius_ft,
              turn_rate_dps    |-> zero_turn_rate,
              lead_distance_nm |-> zero_turn_rate,
              lead_distance_ft |-> zero_turn_rate,
              time_to_turn_sec |-> infinite_time] @@ common
        \* radius_nm = radius_m / meters_per_nm, radius_ft = radius_m *
        \* feet_per_meter: radius_m and the (positive) conversion.
        ELSE [radius_nm |-> [of   |-> radius_m(tas_kts, bank_deg),
                             unit |-> "1 / meters_per_nm"],
              radius_ft |-> [of   |-> radius_m(tas_kts, bank_deg),
                             unit |-> "feet_per_meter"]] @@ common

\* if (distance_nm < min_distance_nm) distance_nm = min_distance_nm;
clamp_distance_off(distance_nm) == distance_nm
clamp_distance(distance_nm) ==
    IF distance_nm < min_distance_nm THEN min_distance_nm ELSE distance_nm

\* if (groundspeed_kts < min_groundspeed_kts) groundspeed_kts = min_groundspeed_kts;
clamp_groundspeed(groundspeed_kts) ==
    IF groundspeed_kts < min_groundspeed_kts THEN min_groundspeed_kts
    ELSE groundspeed_kts

\* vnav_calculator.cpp, in hundredths.
thousand_feet == 100000

\* vs_conversion_factor * tan(three_deg_rad) = 101.27 * 0.052408 = 5.307 fpm
\* per knot, in thousandths.
vs_3deg_per_kt == 5307

\* x / y to the nearest hundredth, x and y in hundredths, y not 0.
Quotient(x, y) ==
    LET q == Rounded(Abs(x) * Centi, Abs(y))
    IN  IF (x < 0) = (y < 0) THEN q ELSE -q

\* if (fabs(current_vs_fpm) > min_vs_for_time_calc)
time_gate_inclusive(current_vs_fpm) == Abs(current_vs_fpm) >= min_vs_for_time_calc
time_gate(current_vs_fpm) == Abs(current_vs_fpm) > min_vs_for_time_calc

\* result.vs_for_3deg = vs_conversion_factor * groundspeed_kts * tan(three_deg_rad);
\* if (!result.is_descent) result.vs_for_3deg = -result.vs_for_3deg;
vs_for_3deg(groundspeed_kts, is_descent) ==
    LET vs == Rounded(groundspeed_kts * vs_3deg_per_kt, 1000)
    IN  IF ~is_descent THEN -vs ELSE vs

\* VNAVData calculate_vnav(current_alt_ft, target_alt_ft, distance_nm,
\*                         groundspeed_kts, current_vs_fpm)
calculate_vnav(current_alt_ft, target_alt_ft, distance_nm, groundspeed_kts, current_vs_fpm) ==
    LET altitude_change_ft == target_alt_ft - current_alt_ft
        is_descent         == altitude_change_ft < zero_distance
        distance           == clamp_distance(distance_nm)
        groundspeed        == clamp_groundspeed(groundspeed_kts)
        abs_alt_change     == Abs(altitude_change_ft)
    IN  [fn          |-> "calculate_vnav",
         args        |-> <<current_alt_ft, target_alt_ft, distance_nm,
                           groundspeed_kts, current_vs_fpm>>,
         altitude_to_lose_ft |-> -altitude_change_ft,
         is_descent  |-> is_descent,
         distance_nm |-> distance,
         groundspeed_kts |-> groundspeed,
         vs_for_3deg |-> vs_for_3deg(groundspeed, is_descent),
         time_to_constraint_min |->
            IF time_gate(current_vs_fpm)
            THEN Quotient(altitude_change_ft, current_vs_fpm)
            ELSE infinite_time,
         distance_per_1000ft |->
            IF abs_alt_change > min_vs_for_time_calc
            THEN Quotient(distance * (thousand_feet \div Centi), abs_alt_change)
            ELSE zero_distance,
         divisions   |->
            <<Division("altitude_change_ft / distance_ft",
                       distance = 0 \/ nm_to_ft = 0),
              Division("abs_alt_change / (nm_to_ft * tan(three_deg_rad))",
                       nm_to_ft = 0)>>
            \o (IF time_gate(current_vs_fpm)
                THEN <<Division("altitude_change_ft / current_vs_fpm",
                                current_vs_fpm = 0)>>
                ELSE <<>>)
            \o (IF abs_alt_change > min_vs_for_time_calc
                THEN <<Division("(distance_nm * thousand_feet) / abs_alt_change",
                                abs_alt_change = 0)>>
                ELSE <<>>)]

\* density_altitude_calculator.cpp: sea_level_temp_c in hundredths of a
\* degree, temp_lapse_rate in units of 1e-7 degree per foot,
\* density_alt_factor in feet per degree.
sea_level_temp_c == 1500
temp_lapse_rate == 19812
density_alt_factor == 120

\* Temperatures inside the functions are in units of 1e-5 degree: so many
\* to one hundredth of a degree.
LapseScale == 1000

\* Ratios are kept in ten-thousandths.
RatioScale == 10000

\* A positive number divided by zero, and what is left when it is subtracted
\* from a number.
infinity == "inf"
minus_infinity == "-inf"

\* temp_lapse_rate * pressure_altitude_ft in units of 1e-5 degree (the whole
\* feet and the hundredths of a foot are multiplied apart).
lapse(pressure_altitude_ft) ==
    ((pressure_altitude_ft \div Centi) * temp_lapse_rate) \div Centi
        + ((pressure_altitude_ft % Centi) * temp_lapse_rate) \div (Centi * Centi)

\* double isa_temperature_c(pressure_altitude_ft), in units of 1e-5 degree:
\*   return sea_level_temp_c - (temp_lapse_rate * pressure_altitude_ft);
isa_temperature_c_sea_level(pressure_altitude_ft) == sea_level_temp_c * LapseScale
isa_temperature_c(pressure_altitude_ft) ==
    sea_level_temp_c * LapseScale - lapse(pressure_altitude_ft)

\* oat_celsius - isa_temp, in units of 1e-5 degree.
temp_deviation(pressure_altitude_ft, oat_celsius) ==
    oat_celsius * LapseScale - isa_temperature_c(pressure_altitude_ft)

\* double calculate_density_altitude(pressure_altitude_ft, oat_celsius):
\*   pressure_altitude_ft + (density_alt_factor * temp_deviation)
\* in hundredths of a foot: (factor / 10) * deviation is in units of 1e-4
\* foot.
calculate_density_altitude(pressure_altitude_ft, oat_celsius) ==
    pressure_altitude_ft
        + Rounded((density_alt_factor \div 10)
                      * temp_deviation(pressure_altitude_ft, oat_celsius),
                  Centi)

\* pow(1.0 - pressure_altitude_constant * h, pressure_altitude_exponent) in
\* ten-thousandths for h = -3000, -2000, ..., 61000 feet.
PressureTable ==
    <<11133, 10744, 10367, 10000, 9644, 9298, 8962, 8637, 8320, 8014,
      7716, 7428, 7148, 6877, 6614, 6360, 6113, 5875, 5643, 5420,
      5203, 4994, 4791, 4595, 4406, 4223, 4046, 3876, 3711, 3552,
      3398, 3250, 3107, 2970, 2837, 2709, 2586, 2467, 2353, 2243,
      2138, 2036, 1938, 1844, 1754, 1668, 1585, 1505, 1429, 1356,
      1286, 1218, 1154, 1093, 1034, 977, 924, 872, 823, 777,
      732, 690, 649, 611, 574>>

\* The pressure ratio at pressure_altitude_ft, interpolated between the
\* thousands of feet of the table.
pressure_ratio(pressure_altitude_ft) ==
    LET k    == pressure_altitude_ft \div (1000 * Centi)
        rest == pressure_altitude_ft % (1000 * Centi)
        lo   == PressureTable[k + 4]
        hi   == PressureTable[k + 5]
    IN  lo - ((lo - hi) * rest) \div (1000 * Centi)

\* double calculate_density_ratio(pressure_altitude_ft, oat_celsius):
\*   sigma = pressure_ratio * (sea_level_temp_k / temp_k)
\* in ten-thousandths; the division sea_level_temp_k / temp_k has a zero
\* denominator at oat_celsius = -273.15.
calculate_density_ratio(pressure_altitude_ft, oat_celsius) ==
    LET temp_k           == oat_celsius + kelvin_offset
        sea_level_temp_k == sea_level_temp_c + kelvin_offset
        product          == pressure_ratio(pressure_altitude_ft) * sea_level_temp_k
    IN  [sigma     |-> IF temp_k = 0 THEN infinity
                       ELSE IF temp_k > 0 THEN Rounded(product, temp_k)
                       ELSE -Rounded(product, -temp_k),
         divisions |-> <<Division("sea_level_temp_k / temp_k", temp_k = 0)>>]

\* ias_kts > min_ias_for_ratio
ias_above_minimum_inclusive(ias_kts) == ias_kts >= min_ias_for_ratio
ias_above_minimum(ias_kts) == ias_kts > min_ias_for_ratio

\* DensityAltitudeData calculate_density_altitude_data(pressure_altitude_ft,
\*                                     oat_celsius, ias_kts, tas_kts)
calculate_density_altitude_data(pressure_altitude_ft, oat_celsius, ias_kts, tas_kts) ==
    LET ratio == calculate_density_ratio(pressure_altitude_ft, oat_celsius)
    IN  [fn        |-> "calculate_density_altitude_data",
         args      |-> <<pressure_altitude_ft, oat_celsius, ias_kts, tas_kts>>,
         pressure_altitude_ft |-> pressure_altitude_ft,
         density_altitude_ft  |->
            calculate_density_altitude(pressure_altitude_ft, oat_celsius),
         temperature_deviation_c |->
            Rounded(temp_deviation(pressure_altitude_ft, oat_celsius), LapseScale),
         air_density_ratio |-> ratio.sigma,
         performance_loss_pct |->
            IF ratio.divisions[1].zero THEN minus_infinity
            ELSE RatioScale - ratio.sigma,
         tas_to_ias_ratio |->
            IF ias_above_minimum(ias_kts) THEN Quotient(tas_kts, ias_kts)
            ELSE 1 * Centi,
         divisions |->
            ratio.divisions
            \o (IF ias_above_minimum(ias_kts)
                THEN <<Division("tas_kts / ias_kts", ias_kts = 0)>>
                ELSE <<>>)]

\* xplane_mfd_calc.h (units), in hundredths of a degree.
angle_wrap == 36000
half_circle == 18000

\* Steps per hundredth in the arguments and results of normalize_angle: a
\* multiple of Grain is the double on the hundredths grid; 1 and -1 stand for
\* the non-zero doubles of magnitude below 2^-45 (2.8e-14), which is half the
\* spacing of the doubles between 256 and 512.
Grain == 4
Fine(x) == x * Grain

\* fmod(x, y) for y > 0: exact, with the sign of x.
fmod(x, y) == IF x >= 0 THEN x % y ELSE -((-x) % y)

\* x + y in double arithmetic: exact on the grid, and a sum that falls
\* within 2^-45 of a grid point of magnitude 256 or more rounds to it.
fl_add(x, y) ==
    LET sum == x + y
    IN  IF sum % Grain = 0 \/ Abs(sum) = 1 THEN sum
        ELSE ((sum + Grain \div 2) \div Grain) * Grain

\* double normalize_angle(double angle), on Fine values:
\*   result = fmod(angle, angle_wrap); if (result < 0.0) result += angle_wrap;
normalize_angle(angle) ==
    LET result == fmod(angle, Fine(angle_wrap))
    IN  IF result < Fine(wind_calm_threshold)
        THEN fl_add(result, Fine(angle_wrap))
        ELSE result

\* normalize_angle on an angle of the hundredths grid.
normalized(angle) == normalize_angle(Fine(angle)) \div Grain

\* if (wind_from_relative > half_circle) wind_from_relative -= angle_wrap;
rebase_at_half_circle(angle) ==
    IF angle >= half_circle THEN angle - angle_wrap ELSE angle
rebase(angle) == IF angle > half_circle THEN angle - angle_wrap ELSE angle

\* result.headwind = -wind_speed * cos(wind_from_rad)
headwind(wind_speed, wind_from_relative) ==
    Rounded(-wind_speed * cos_deg(wind_from_relative), TrigScale)

\* result.crosswind = wind_speed * sin(wind_from_rad)
crosswind(wind_speed, wind_from_relative) ==
    Rounded(wind_speed * sin_deg(wind_from_relative), TrigScale)

\* WindComponents calculate_wind(track, heading, wind_dir, wind_speed): the
\* function divides nowhere.
calculate_wind(track, heading, wind_dir, wind_speed) ==
    LET track_n  == normalized(track)
        heading_n == normalized(heading)
        wind_dir_n == normalized(wind_dir)
        wind_from_relative == rebase(normalized(wind_dir_n - track_n))
    IN  [fn         |-> "calculate_wind",
         args       |-> <<track, heading, wind_dir, wind_speed>>,
         wind_from_relative |-> wind_from_relative,
         headwind   |-> headwind(wind_speed, wind_from_relative),
         crosswind  |-> crosswind(wind_speed, wind_from_relative),
         total_wind |-> wind_speed,
         wca        |-> wind_calm_threshold,
         drift      |-> rebase(normalized(track_n - heading_n)),
         divisions  |-> <<>>]

Sample(ticks) == [m |-> Trim(Limbs(ticks, 2)), e |-> sample_exponent]

\* double sum = 0.0;
zero_double == [m |-> <<>>, e |-> 0]

\* A result in hundredths, and what sqrt of a negative number and 0.0 / 0.0
\* give.
Number(hundredths) == [nan |-> FALSE, value |-> hundredths]
not_a_number == [nan |-> TRUE, value |-> 0]

\* The largest r in lo .. hi with r * r <= x (hi * hi does not overflow).
RECURSIVE isqrt_between(_, _, _)
isqrt_between(x, lo, hi) ==
    IF lo >= hi THEN lo
    ELSE LET mid == (lo + hi + 1) \div 2
         IN  IF mid * mid <= x THEN isqrt_between(x, mid, hi)
             ELSE isqrt_between(x, lo, mid - 1)

isqrt(x) == isqrt_between(x, 0, 46340)

\* for (int32_t i = 0; i < history_size; ++i)
\* { sum += ias_history[i]; sum_sq += ias_history[i] * ias_history[i]; }
\* The values of sum and sum_sq before the loop and after each of its first
\* `iterations` iterations.
RECURSIVE gust_loop(_, _)
gust_loop(ias_history, iterations) ==
    IF iterations <= 0 THEN <<[sum |-> zero_double, sum_sq |-> zero_double]>>
    ELSE LET before == gust_loop(ias_history, iterations - 1)
             x      == Sample(ias_history[iterations])
         IN  Append(before,
                    [sum    |-> dbl_add(before[iterations].sum, x),
                     sum_sq |-> dbl_add(before[iterations].sum_sq, dbl_mul(x, x))])

\* The gust factor block of calculate_wind_vector, for samples that are not
\* negative: mean = sum / history_size,
\* variance = (sum_sq / history_size) - (mean * mean),
\* gust_factor = sqrt(variance) / mean, to the hundredth.
gust_factor(ias_history, history_size) ==
    IF history_size >= min_history_for_stats
    THEN LET acc       == gust_loop(ias_history, history_size)[history_size + 1]
             mean      == dbl_div_int(acc.sum, history_size)
             mean_sq   == dbl_mul(mean, mean)
             square_mean == dbl_div_int(acc.sum_sq, history_size)
             variance  == dbl_distance(square_mean, mean_sq)
         IN  IF dbl_less(square_mean, mean_sq) \/ mean.m = <<>>
             THEN not_a_number
             ELSE Number(Rounded(isqrt(dbl_scaled(variance, 10000)) * Centi,
                                 dbl_scaled(mean, Centi)))
    ELSE Number(0)

\* Vector2D(speed * sin(angle_rad), speed * cos(angle_rad)), in hundredths.
Vector2D(speed, angle_deg) ==
    [x |-> Rounded(speed * sin_deg(angle_deg), TrigScale),
     y |-> Rounded(speed * cos_deg(angle_deg), TrigScale)]

\* double magnitude() const { return sqrt(x * x + y * y); }
\* The components are taken in steps that keep the squares below 2^31.
magnitude(v) ==
    LET step == Max(Abs(v.x), Abs(v.y)) \div 23170 + 1
    IN  isqrt((v.x \div step) * (v.x \div step)
                  + (v.y \div step) * (v.y \div step)) * step

\* atan2(x, y) * rad_to_deg brought into [0, 360), to the nearest whole
\* degree, in hundredths: the bearing of the vector (x east, y north).  The
\* program prints 360.00 for a bearing a rounding error west of north, where
\* this gives 0.
bearing(x, y) ==
    LET ax == Abs(x)
        ay == Abs(y)
        off(d) == Abs(ax * SinTable[91 - d] - ay * SinTable[d + 1])
        t  == CHOOSE d \in 0..90 :
                 /\ \A g \in 0..90 : off(d) <= off(g)
                 /\ \A g \in 0..(d - 1) : off(g) > off(d)
    IN  IF x = 0 /\ y = 0 THEN 0
        ELSE IF x >= 0 /\ y >= 0 THEN t * Centi
        ELSE IF x >= 0 THEN (180 - t) * Centi
        ELSE IF y < 0 THEN (180 + t) * Centi
        ELSE ((360 - t) % 360) * Centi

\* WindData calculate_wind_vector(tas_kts, gs_kts, heading_deg, track_deg,
\*                                ias_history, history_size)
calculate_wind_vector(tas_kts, gs_kts, heading_deg, track_deg, ias_history, history_size) ==
    LET air_vec    == Vector2D(tas_kts, heading_deg)
        ground_vec == Vector2D(gs_kts, track_deg)
        wind_vec   == [x |-> ground_vec.x - air_vec.x, y |-> ground_vec.y - air_vec.y]
        speed_kts  == magnitude(wind_vec)
        direction_from == bearing(wind_vec.x, wind_vec.y)
        wind_from_rel  == rebase(normalized(direction_from - track_deg))
    IN
    [fn        |-> "calculate_wind_vector",
     args      |-> <<tas_kts, gs_kts, heading_deg, track_deg>>,
     ias_history |-> ias_history,
     history_size |-> history_size,
     speed_kts |-> speed_kts,
     direction_from |-> direction_from,
     headwind  |-> headwind(speed_kts, wind_from_rel),
     crosswind |-> crosswind(speed_kts, wind_from_rel),
     gust_factor |-> gust_factor(ias_history, history_size),
     divisions |->
        IF history_size >= min_history_for_stats
        THEN <<Division("sum / history_size", history_size = 0),
               Division("sum_sq / history_size", history_size = 0),
               \* mean = sum / history_size
               Division("std_dev / mean",
                        \A i \in 1..history_size : ias_history[i] = 0)>>
        ELSE <<>>]

\* EnvelopeMargins calculate_envelope(bank_deg, ias_kts, mach, vso_kts,
\*                                    vne_kts, mmo)
\* vs_actual = vso_kts * sqrt(load_factor) is zero when vso_kts is and the
\* load factor is positive (a negative load factor makes it NaN).
calculate_envelope(bank_deg, ias_kts, mach, vso_kts, vne_kts, mmo) ==
    [fn        |-> "calculate_envelope",
     args      |-> <<bank_deg, ias_kts, mach, vso_kts, vne_kts, mmo>>,
     divisions |->
        <<Division("1.0 / cos(bank_rad)", FALSE),
          Division("(ias_kts - vs_actual) / vs_actual",
                   vso_kts = 0 /\ cos_positive(bank_deg)),
          Division("(vne_kts - ias_kts) / vne_kts", vne_kts = 0),
          Division("(mmo - mach) / mmo", mmo = 0)>>]

\* flight_calculator.cpp: energy_trend_threshold in hundredths, and the
\* values of enum class Trend.
energy_trend_threshold == 5000
decreasing == -1
stable == 0
increasing == 1

\* if (vs_fpm > energy_trend_threshold) increasing
\* else if (vs_fpm < -energy_trend_threshold) decreasing else stable
trend_inclusive(vs_fpm) ==
    IF vs_fpm >= energy_trend_threshold THEN increasing
    ELSE IF vs_fpm <= -energy_trend_threshold THEN decreasing
    ELSE stable
trend(vs_fpm) ==
    IF vs_fpm > energy_trend_threshold THEN increasing
    ELSE IF vs_fpm < -energy_trend_threshold THEN decreasing
    ELSE stable

\* EnergyData calculate_energy(tas_kts, altitude_ft, vs_fpm)
calculate_energy(tas_kts, altitude_ft, vs_fpm) ==
    [fn        |-> "calculate_energy",
     args      |-> <<tas_kts, altitude_ft, vs_fpm>>,
     trend     |-> trend(vs_fpm),
     divisions |->
        <<Division("(v_ms * v_ms) / (2.0 * gravity)", 2 * gravity_e5 = 0),
          Division("vs_fpm / energy_rate_divisor", energy_rate_divisor = 0)>>]

\* GlideData calculate_glide_reach(agl_ft, tas_kts, headwind_kts)
calculate_glide_reach(agl_ft, tas_kts, headwind_kts) ==
    [fn        |-> "calculate_glide_reach",
     args      |-> <<agl_ft, tas_kts>>,
     divisions |->
        <<Division("range_ft / nm_to_ft", nm_to_ft = 0),
          Division("headwind_kts / tas_kts", tas_kts = 0)>>]

(***************************************************************************)
(* The command lines the model runs                                        *)
(***************************************************************************)

Programs == {"wind", "turn", "vnav", "density", "flight"}

\* How many positions of a command line differ from the example at most.
MaxEdits == 2

\* turn_calculator_ARGS = 250 25 90
turn_calculator_ARGS ==
    << <<"2", "5", "0">>, <<"2", "5">>, <<"9", "0">> >>

\* vnav_calculator_ARGS = 35000 10000 100 450 -1500
vnav_calculator_ARGS ==
    << <<"3", "5", "0", "0", "0">>, <<"1", "0", "0", "0", "0">>,
      <<"1", "0", "0">>, <<"4", "5", "0">>, <<"-", "1", "5", "0", "0">> >>

\* density_altitude_calculator_ARGS = 5000 25 150 170
density_altitude_calculator_ARGS ==
    << <<"5", "0", "0", "0">>, <<"2", "5">>, <<"1", "5", "0">>,
      <<"1", "7", "0">> >>

\* flight_calculator_ARGS = 250 245 90 95 220 0.65 35000 35000 -500 75000 5 120
\*                         250 0.82
flight_calculator_ARGS ==
    << <<"2", "5", "0">>, <<"2", "4", "5">>, <<"9", "0">>, <<"9", "5">>,
      <<"2", "2", "0">>, <<"0", ".", "6", "5">>, <<"3", "5", "0", "0", "0">>,
      <<"3", "5", "0", "0", "0">>, <<"-", "5", "0", "0">>,
      <<"7", "5", "0", "0", "0">>, <<"5">>, <<"1", "2", "0">>,
      <<"2", "5", "0">>, <<"0", ".", "8", "2">> >>

\* wind_calculator_ARGS = 90 85 270 15
wind_calculator_ARGS ==
    << <<"9", "0">>, <<"8", "5">>, <<"2", "7", "0">>, <<"1", "5">> >>

\* The example arguments of each calculator (Makefile, *_ARGS).
Example(p) ==
    CASE p = "turn"    -> turn_calculator_ARGS
      [] p = "vnav"    -> vnav_calculator_ARGS
      [] p = "density" -> density_altitude_calculator_ARGS
      [] p = "flight"  -> flight_calculator_ARGS
      [] p = "wind"    -> wind_calculator_ARGS

\* The invocations of the README's Calculators section.
\* ./wind_calculator 120 300 45
wind_calculator_README ==
    << <<"1", "2", "0">>, <<"3", "0", "0">>, <<"4", "5">> >>

\* ./flight_calculator 250 280 180 175 150 0.45 35000 34000 -500 65000 15 55 320 0.85
flight_calculator_README ==
    << <<"2", "5", "0">>, <<"2", "8", "0">>, <<"1", "8", "0">>,
       <<"1", "7", "5">>, <<"1", "5", "0">>, <<"0", ".", "4", "5">>,
       <<"3", "5", "0", "0", "0">>, <<"3", "4", "0", "0", "0">>,
       <<"-", "5", "0", "0">>, <<"6", "5", "0", "0", "0">>, <<"1", "5">>,
       <<"5", "5">>, <<"3", "2", "0">>, <<"0", ".", "8", "5">> >>

\* ./turn_calculator 200 30 90
turn_calculator_README ==
    << <<"2", "0", "0">>, <<"3", "0">>, <<"9", "0">> >>

\* ./vnav_calculator 35000 10000 100 450 -1800
vnav_calculator_README ==
    << <<"3", "5", "0", "0", "0">>, <<"1", "0", "0", "0", "0">>,
       <<"1", "0", "0">>, <<"4", "5", "0">>, <<"-", "1", "8", "0", "0">> >>

\* ./density_altitude_calculator 5000 25 150 170
density_altitude_calculator_README ==
    << <<"5", "0", "0", "0">>, <<"2", "5">>, <<"1", "5", "0">>,
       <<"1", "7", "0">> >>

Readme(p) ==
    CASE p = "turn"    -> turn_calculator_README
      [] p = "vnav"    -> vnav_calculator_README
      [] p = "density" -> density_altitude_calculator_README
      [] p = "flight"  -> flight_calculator_README
      [] p = "wind"    -> wind_calculator_README

\* The example, the optional argument (force_error) at its default, and one
\* argument more than the calculator accepts.
Template(p) ==
    Example(p) \o (IF p = "density" THEN << <<"0">> >> ELSE <<>>)
               \o << <<"7">> >>

\* The tokens tried at each position instead of the template's: not numbers
\* ("x", "5x", the empty token) and numbers on and next to every bound the
\* entry points and engines compare against.
TurnTasTokens ==
    {<<"x">>, <<>>, <<"0">>, <<"0", ".", "0", "1">>, <<"-", "5">>}
TurnBankTokens ==
    {<<"x">>, <<"5", "x">>, <<"0">>, <<"-", "0", ".", "0", "1">>,
     <<"9", "0">>, <<"9", "0", ".", "0", "1">>}
TurnCourseTokens ==
    {<<"x">>, <<"0">>, <<"-", "9", "0">>}
WindTrackTokens ==
    {<<"x">>, <<"4", "5", "0">>}
WindHeadingTokens ==
    {<<"x">>, <<"-", "5">>}
WindDirTokens ==
    {<<"5", "x">>, <<"9", "0">>}
WindSpeedTokens ==
    {<<"x">>, <<>>, <<"0">>, <<"-", "0">>, <<"-", "0", ".", "0", "1">>,
     <<"-", "1", "5">>}
VnavAltTokens ==
    {<<"x">>, <<"0">>}
VnavDistanceTokens ==
    {<<"x">>, <<"0">>, <<"-", "1">>, <<"0", ".", "0", "1">>,
     <<"0", ".", "0", "2">>}
VnavGroundspeedTokens ==
    {<<"5", "x">>, <<"0">>, <<"-", "5">>, <<"0", ".", "9", "9">>, <<"1">>}
VnavVsTokens ==
    {<<"x">>, <<"0">>, <<"1">>}
DensityAltTokens ==
    {<<"x">>, <<"-", "2", "0", "0", "0">>,
     <<"-", "2", "0", "0", "0", ".", "0", "1">>, <<"6", "0", "0", "0", "0">>,
     <<"6", "0", "0", "0", "0", ".", "0", "1">>}
DensityOatTokens ==
    {<<"5", "x">>, <<"-", "6", "0">>, <<"-", "6", "0", ".", "0", "1">>,
     <<"6", "0">>, <<"6", "0", ".", "0", "1">>,
     <<"-", "2", "7", "3", ".", "1", "5">>}
DensityIasTokens ==
    {<<"x">>, <<"1", "0">>, <<"0">>}
DensityTasTokens ==
    {<<"x">>, <<"0">>}
DensityFlagTokens ==
    {<<"x">>, <<"1">>, <<"2">>,
     <<"4", "2", "9", "4", "9", "6", "7", "2", "9", "7">>, <<"1", ".", "0">>,
     <<"-", "1">>}
FlightTokens ==
    {<<"x">>, <<"0">>}
ExtraTokens ==
    {<<"x">>}

Alternatives(p, i) ==
    CASE p = "turn" ->
            (CASE i = 1 -> TurnTasTokens
               [] i = 2 -> TurnBankTokens
               [] i = 3 -> TurnCourseTokens
               [] OTHER -> ExtraTokens)
      [] p = "wind" ->
            (CASE i = 1 -> WindTrackTokens
               [] i = 2 -> WindHeadingTokens
               [] i = 3 -> WindDirTokens
               [] i = 4 -> WindSpeedTokens
               [] OTHER -> ExtraTokens)
      [] p = "vnav" ->
            (CASE i \in {1, 2} -> VnavAltTokens
               [] i = 3 -> VnavDistanceTokens
               [] i = 4 -> VnavGroundspeedTokens
               [] i = 5 -> VnavVsTokens
               [] OTHER -> ExtraTokens)
      [] p = "density" ->
            (CASE i = 1 -> DensityAltTokens
               [] i = 2 -> DensityOatTokens
               [] i = 3 -> DensityIasTokens
               [] i = 4 -> DensityTasTokens
               [] i = 5 -> DensityFlagTokens
               [] OTHER -> ExtraTokens)
      [] p = "flight" -> FlightTokens

\* The template with at most m positions replaced.
RECURSIVE Edited(_, _)
Edited(p, m) ==
    IF m = 0 THEN {Template(p)}
    ELSE LET less == Edited(p, m - 1)
         IN  less \cup
             UNION {{[v EXCEPT ![i] = t] : t \in Alternatives(p, i)} :
                        <<v, i>> \in less \X (1..Len(Template(p)))}

\* Every command line of program p: an edited template cut to any length,
\* and the README's invocation.
CommandLines(p) ==
    {SubSeq(v, 1, n) : <<v, n>> \in Edited(p, MaxEdits) \X (0..Len(Template(p)))}
        \cup {Readme(p)}

\* A token strtod converts entirely, stated on the characters: an optional
\* '-', then digits with at most one '.', at least one digit.
IsNumeric(s) ==
    LET body == IF Len(s) >= 1 /\ s[1] = "-" THEN Tail(s) ELSE s
    IN  /\ \A i \in 1..Len(body) : body[i] \in Digits \cup {"."}
        /\ \E i \in 1..Len(body) : body[i] \in Digits
        /\ Cardinality({i \in 1..Len(body) : body[i] = "."}) <= 1

\* A token strtol converts entirely: an optional '-', then digits only.
IsInteger(s) ==
    LET body == IF Len(s) >= 1 /\ s[1] = "-" THEN Tail(s) ELSE s
    IN  /\ Len(body) >= 1
        /\ \A i \in 1..Len(body) : body[i] \in Digits

(***************************************************************************)
(* The entry points                                                        *)
(***************************************************************************)

\* enum class Return_code (xplane_mfd_calc.h); turn_calculator.cpp names
\* the same values error_success .. error_invalid_value.
success == 0
invalid_argc == 1
parse_failed == 2
invalid_value == 3
simulated == 4

argc == Len(argv) + 1

\* A process about to enter main.
RunStart ==
    /\ prog \in Programs
    /\ argv \in CommandLines(prog)
    /\ long64 \in (IF prog = "density" THEN BOOLEAN ELSE {TRUE})
    /\ pc = "start"
    /\ vals = <<>>
    /\ force_error = 0
    /\ fill_i = 0
    /\ out = <<>>
    /\ err = <<>>
    /\ calls = <<>>
    /\ exit_code = <<>>

\* No process (the other specifications).
RunIdle ==
    /\ prog = "none"
    /\ argv = <<>>
    /\ long64 = TRUE
    /\ pc = "done"
    /\ vals = <<>>
    /\ force_error = 0
    /\ fill_i = 0
    /\ out = <<>>
    /\ err = <<>>
    /\ calls = <<>>
    /\ exit_code = <<>>

\* return code;  with the diagnostics msgs written to std::cerr before it.
\* exit_code holds the status once main has returned, nothing before.
Return(code, msgs) ==
    /\ err' = err \o msgs
    /\ exit_code' = <<code>>
    /\ pc' = "done"

\* Fall through to the statement at `next`.
Goto(next) ==
    /\ pc' = next
    /\ UNCHANGED <<err, exit_code>>

\* if (!parse_double(argv[i], x)) { std::cerr << msg; return parse_failed; }
ParseArg_value_only(i, msg, next) ==
    /\ vals' = Append(vals, parse_double(argv[i]).value)
    /\ Goto(next)
ParseArg(i, msg, next) ==
    LET r == parse_double(argv[i])
    IN  /\ vals' = Append(vals, r.value)
        /\ IF r.ok THEN Goto(next) ELSE Return(parse_failed, <<msg>>)

\* print_json(engine(...)): the engine runs, its record is written to stdout.
PrintResult(results) ==
    /\ calls' = calls \o results
    /\ out' = Append(out, [block |-> prog, results |-> results])

\* ------------------------------------------------------------------ turn

turn_parse_msg ==
    <<"Error: Invalid TAS", "Error: Invalid bank angle",
      "Error: Invalid course change">>

\* else if (tas_kts <= 0.0)
tas_rejected_negative_only(tas_kts) == tas_kts < 0
tas_rejected(tas_kts) == tas_kts <= 0

\* else if (bank_deg < 0.0 || bank_deg > 90.0)
bank_rejected_strict(bank_deg) == bank_deg <= 0 \/ bank_deg >= 9000
bank_rejected(bank_deg) == bank_deg < 0 \/ bank_deg > 9000

\* if (argc != 4) { print_usage(argv[0]); return_code = error_invalid_args; }
TurnArgc ==
    /\ prog = "turn" /\ pc = "start"
    /\ IF argc # 4 THEN Return(invalid_argc, <<"Usage">>) ELSE Goto("parse")
    /\ UNCHANGED <<prog, argv, long64, vals, force_error, fill_i, out, calls>>

\* The three if (!parse_double(argv[i], ...)) branches, one per step.
TurnParse ==
    /\ prog = "turn" /\ pc = "parse"
    /\ LET i == Len(vals) + 1
       IN  ParseArg(i, turn_parse_msg[i], IF i = 3 THEN "check_tas" ELSE "parse")
    /\ UNCHANGED <<prog, argv, long64, force_error, fill_i, out, calls>>

TurnCheckTas ==
    /\ prog = "turn" /\ pc = "check_tas"
    /\ IF tas_rejected(vals[1])
       THEN Return(invalid_value, <<"Error: TAS must be positive">>)
       ELSE Goto("check_bank")
    /\ UNCHANGED <<prog, argv, long64, vals, force_error, fill_i, out, calls>>

TurnCheckBank ==
    /\ prog = "turn" /\ pc = "check_bank"
    /\ IF bank_rejected(vals[2])
       THEN Return(invalid_value,
                   <<"Error: Bank angle must be between 0 and 90 degrees">>)
       ELSE Goto("calc")
    /\ UNCHANGED <<prog, argv, long64, vals, force_error, fill_i, out, calls>>

\* TurnData turn = calculate_turn_performance(...); print_json(turn);
TurnCalc ==
    /\ prog = "turn" /\ pc = "calc"
    /\ PrintResult(<<calculate_turn_performance(vals[1], vals[2], vals[3])>>)
    /\ Return(success, <<>>)
    /\ UNCHANGED <<prog, argv, long64, vals, force_error, fill_i>>

\* ------------------------------------------------------------------ wind

wind_parse_msg ==
    <<"Error: Invalid track angle", "Error: Invalid heading",
      "Error: Invalid wind direction", "Error: Invalid wind speed">>

\* if (wind_speed < airv::calc::wind_calm_threshold)
wind_speed_rejected(wind_speed) == wind_speed < wind_calm_threshold

WindArgc ==
    /\ prog = "wind" /\ pc = "start"
    /\ IF argc # 5 THEN Return(invalid_argc, <<"Usage">>) ELSE Goto("parse")
    /\ UNCHANGED <<prog, argv, long64, vals, force_error, fill_i, out, calls>>

WindParse ==
    /\ prog = "wind" /\ pc = "parse"
    /\ LET i == Len(vals) + 1
       IN  ParseArg(i, wind_parse_msg[i], IF i = 4 THEN "check_wind" ELSE "parse")
    /\ UNCHANGED <<prog, argv, long64, force_error, fill_i, out, calls>>

WindCheckSpeed ==
    /\ prog = "wind" /\ pc = "check_wind"
    /\ IF wind_speed_rejected(vals[4])
       THEN Return(invalid_value, <<"Error: Wind speed cannot be negative">>)
       ELSE Goto("calc")
    /\ UNCHANGED <<prog, argv, long64, vals, force_error, fill_i, out, calls>>

WindCalc ==
    /\ prog = "wind" /\ pc = "calc"
    /\ PrintResult(<<calculate_wind(vals[1], vals[2], vals[3], vals[4])>>)
    /\ Return(success, <<>>)
    /\ UNCHANGED <<prog, argv, long64, vals, force_error, fill_i>>

\* ------------------------------------------------------------------ vnav

vnav_parse_msg ==
    <<"Error: Invalid current altitude", "Error: Invalid target altitude",
      "Error: Invalid distance", "Error: Invalid groundspeed",
      "Error: Invalid vertical speed">>

VnavArgc ==
    /\ prog = "vnav" /\ pc = "start"
    /\ IF argc # 6 THEN Return(invalid_argc, <<"Usage">>) ELSE Goto("parse")
    /\ UNCHANGED <<prog, argv, long64, vals, force_error, fill_i, out, calls>>

VnavParse ==
    /\ prog = "vnav" /\ pc = "parse"
    /\ LET i == Len(vals) + 1
       IN  ParseArg(i, vnav_parse_msg[i], IF i = 5 THEN "calc" ELSE "parse")
    /\ UNCHANGED <<prog, argv, long64, force_error, fill_i, out, calls>>

VnavCalc ==
    /\ prog = "vnav" /\ pc = "calc"
    /\ PrintResult(<<calculate_vnav(vals[1], vals[2], vals[3], vals[4], vals[5])>>)
    /\ Return(success, <<>>)
    /\ UNCHANGED <<prog, argv, long64, vals, force_error, fill_i>>

\* ------------------------------------------------------- density altitude

density_parse_msg ==
    <<"Error: Invalid pressure altitude", "Error: Invalid temperature",
      "Error: Invalid IAS", "Error: Invalid TAS">>

\* if (force_error == 1)
force_requested_nonzero(flag) == flag # 0
force_requested(flag) == flag = 1

\* pressure_altitude_ft < min_altitude_ft || pressure_altitude_ft > max_altitude_ft
altitude_out_of_range_inclusive(pressure_altitude_ft) ==
    pressure_altitude_ft <= min_altitude_ft \/ pressure_altitude_ft >= max_altitude_ft
altitude_out_of_range(pressure_altitude_ft) ==
    pressure_altitude_ft < min_altitude_ft \/ pressure_altitude_ft > max_altitude_ft

\* oat_celsius < min_temperature_c || oat_celsius > max_temperature_c
temperature_out_of_range(oat_celsius) ==
    oat_celsius < min_temperature_c \/ oat_celsius > max_temperature_c

\* if (argc < 5 || 6 < argc) { print_usage(argv[0]); return invalid_argc; }
DensityArgc ==
    /\ prog = "density" /\ pc = "start"
    /\ IF argc < 5 \/ 6 < argc THEN Return(invalid_argc, <<"Usage">>)
       ELSE Goto("flag")
    /\ UNCHANGED <<prog, argv, long64, vals, force_error, fill_i, out, calls>>

\* if (argc == 6 && !parse_int32(argv[5], force_error)) return parse_failed;
DensityFlag ==
    /\ prog = "density" /\ pc = "flag"
    /\ IF argc = 6
       THEN LET r == parse_int32(argv[5], long64, force_error)
            IN  /\ force_error' = r.value
                /\ IF r.ok THEN Goto("force")
                   ELSE Return(parse_failed, <<"Error: Invalid force_error flag">>)
       ELSE Goto("force") /\ UNCHANGED force_error
    /\ UNCHANGED <<prog, argv, long64, vals, fill_i, out, calls>>

\* if (force_error == 1) { ...; print_usage(argv[0]); return simulated; }
DensityForce ==
    /\ prog = "density" /\ pc = "force"
    /\ IF force_requested(force_error)
       THEN Return(simulated, <<"Error: Simulated (forced) error", "Usage">>)
       ELSE Goto("parse")
    /\ UNCHANGED <<prog, argv, long64, vals, force_error, fill_i, out, calls>>

DensityParse ==
    /\ prog = "density" /\ pc = "parse"
    /\ LET i == Len(vals) + 1
       IN  ParseArg(i, density_parse_msg[i], IF i = 4 THEN "warn_alt" ELSE "parse")
    /\ UNCHANGED <<prog, argv, long64, force_error, fill_i, out, calls>>

DensityWarnAlt ==
    /\ prog = "density" /\ pc = "warn_alt"
    /\ err' = IF altitude_out_of_range(vals[1])
              THEN Append(err, "Warning: Pressure altitude outside typical range")
              ELSE err
    /\ pc' = "warn_temp"
    /\ UNCHANGED <<prog, argv, long64, vals, force_error, fill_i, out, calls,
                   exit_code>>

DensityWarnTemp ==
    /\ prog = "density" /\ pc = "warn_temp"
    /\ err' = IF temperature_out_of_range(vals[2])
              THEN Append(err, "Warning: Temperature outside typical range")
              ELSE err
    /\ pc' = "calc"
    /\ UNCHANGED <<prog, argv, long64, vals, force_error, fill_i, out, calls,
                   exit_code>>

\* print_json(calculate_density_altitude_data(...)); return success;
DensityCalc ==
    /\ prog = "density" /\ pc = "calc"
    /\ PrintResult(<<calculate_density_altitude_data(vals[1], vals[2], vals[3],
                                                     vals[4])>>)
    /\ Return(success, <<>>)
    /\ UNCHANGED <<prog, argv, long64, vals, force_error, fill_i>>

\* ---------------------------------------------------------------- flight

\* for (int32_t i = 0; i < 30; ++i)
fill_count == 30

\* The || chain of fourteen !parse_double(argv[i], ...): the calls made, in
\* order, up to and including the first that fails.
FirstBad(a) ==
    IF \E i \in 1..Len(a) : ~parse_double(a[i]).ok
    THEN CHOOSE i \in 1..Len(a) :
            /\ ~parse_double(a[i]).ok
            /\ \A j \in 1..(i - 1) : parse_double(a[j]).ok
    ELSE 0

FlightArgc ==
    /\ prog = "flight" /\ pc = "start"
    /\ IF argc # 15 THEN Return(invalid_argc, <<"Usage">>) ELSE Goto("parse")
    /\ UNCHANGED <<prog, argv, long64, vals, force_error, fill_i, out, calls>>
    /\ UNCHANGED bufvars

FlightParse ==
    /\ prog = "flight" /\ pc = "parse"
    /\ LET bad  == FirstBad(argv)
           last == IF bad = 0 THEN Len(argv) ELSE bad
       IN  /\ vals' = [i \in 1..last |-> parse_double(argv[i]).value]
           /\ IF bad = 0 THEN Goto("construct")
              ELSE Return(parse_failed, <<"Error: Invalid numeric argument">>)
    /\ UNCHANGED <<prog, argv, long64, force_error, fill_i, out, calls>>
    /\ UNCHANGED bufvars

\* xplane_mfd::calc::SensorHistoryBuffer ias_buffer;  and the loop's i = 0
FlightConstruct ==
    /\ prog = "flight" /\ pc = "construct"
    /\ \E g \in Garbage : data' = [i \in 0..(max_ias_history - 1) |-> g]
    /\ head_index' = 0
    /\ current_size' = 0
    /\ hist' = <<>>
    /\ fill_i' = 0
    /\ pc' = "fill"
    /\ UNCHANGED <<prog, argv, long64, vals, force_error, out, err, calls,
                   exit_code, gen>>

\* One iteration: ias_buffer.add_reading(150.0 + (i % 7) - 3.0); ++i
FlightFill ==
    /\ prog = "flight" /\ pc = "fill"
    /\ fill_i < fill_count
    /\ add_reading(synthetic_reading(fill_i))
    /\ fill_i' = fill_i + 1
    /\ UNCHANGED <<prog, argv, long64, pc, vals, force_error, out, err, calls,
                   exit_code, gen>>

\* The loop ends; the four engines run, print_json_results prints them and
\* the two binomial figures; return success.
FlightCalc ==
    /\ prog = "flight" /\ pc = "fill"
    /\ fill_i >= fill_count
    /\ LET wind     == calculate_wind_vector(vals[1], vals[2], vals[3], vals[4],
                                             View,
                                             get_size)
           envelope == calculate_envelope(vals[11], vals[5], vals[6], vals[12],
                                          vals[13], vals[14])
           energy   == calculate_energy(vals[1], vals[7], vals[9])
           glide    == calculate_glide_reach(vals[8], vals[1], "wind.headwind")
           results  == <<wind, envelope, energy, glide>>
       IN  /\ calls' = calls \o results
           /\ out' = Append(out,
                  [block   |-> prog,
                   results |-> results,
                   combinations_5_choose_2  |-> binomial_coefficient(5, 2),
                   combinations_10_choose_3 |-> binomial_coefficient(10, 3)])
    /\ Return(success, <<>>)
    /\ UNCHANGED <<prog, argv, long64, vals, force_error, fill_i>>
    /\ UNCHANGED bufvars

(***************************************************************************)
(* The engines called on their own                                         *)
(*                                                                         *)
(* prog names the function, vals holds its arguments, calls its result.    *)
(***************************************************************************)

TurnSpeeds == {-5000, 0, 1, 10000, 25000, 30000}
TurnBanks ==
    {-3000, 0, 5, 6, 100, 2500, 4500, 8900, 8999, 9000, 12000, 17995, 18000}
TurnCourses == {-9000, 0, 9000}

\* Arguments of normalize_angle, as Fine values: grid angles and the two
\* doubles next to zero.
NormalizeAngles ==
    {Fine(a) : a \in {-72000, -36001, -36000, -9000, -1, 0, 1, 8505, 18000,
                      35999, 36000, 36001, 45000}} \cup {-1, 1}

WindTracks == {-9000, 0, 9000, 27000, 35999, 45000}
WindHeadings == {0, 8500, 9000, 27000}
WindDirs == {0, 4500, 9000, 18000, 27000, 36000}
WindSpeeds == {0, 1500, 3000}

VnavAltitudes == {0, 1000000, 3500000}
VnavDistances == {-100, 0, 1, 2, 10000}
VnavGroundspeeds == {-100, 0, 99, 100, 45000}
VnavVerticalSpeeds == {-150000, -101, -100, 0, 100, 101, 50000}

DensityAltitudes == {0, 500000, 1000000}
DensityTemperatures == {-2000, 1500, 2500}
DensityIndicated == {-5000, 0, 999, 1000, 1001, 15000}
DensityTrue == {-100, 0, 1000, 17000}

EnergySpeeds == {0, 25000}
EnergyAltitudes == {-10000, 3500000}
EnergyVerticalSpeeds == {-150000, -5001, -5000, -4999, 0, 4999, 5000, 5001, 150000}

VectorAirspeeds == {25000}
VectorGroundspeeds == {23000, 25000, 27000}
VectorAngles == {0, 4500, 9000, 18000, 27000}
VectorHistories == {<<>>, <<150 * Ticks>>, <<150 * Ticks, 151 * Ticks>>}

Engines ==
    {"calculate_turn_performance", "normalize_angle", "calculate_wind",
     "calculate_vnav", "calculate_density_altitude_data", "calculate_energy",
     "calculate_wind_vector"}

EngineInputs(f) ==
    CASE f = "calculate_turn_performance" ->
            {<<v, b, c>> : v \in TurnSpeeds, b \in TurnBanks, c \in TurnCourses}
      [] f = "normalize_angle" ->
            {<<a>> : a \in NormalizeAngles}
      [] f = "calculate_wind" ->
            {<<t, h, d, w>> : t \in WindTracks, h \in WindHeadings,
                              d \in WindDirs, w \in WindSpeeds}
      [] f = "calculate_density_altitude_data" ->
            {<<p, o, i, t>> : p \in DensityAltitudes, o \in DensityTemperatures,
                              i \in DensityIndicated, t \in DensityTrue}
      [] f = "calculate_wind_vector" ->
            {<<a, g, h, t, s>> : a \in VectorAirspeeds, g \in VectorGroundspeeds,
                                 h \in VectorAngles, t \in VectorAngles,
                                 s \in VectorHistories}
      [] f = "calculate_energy" ->
            {<<t, a, v>> : t \in EnergySpeeds, a \in EnergyAltitudes,
                           v \in EnergyVerticalSpeeds}
      [] f = "calculate_vnav" ->
            {<<c, t, d, g, v>> : c \in VnavAltitudes, t \in VnavAltitudes,
                                 d \in VnavDistances, g \in VnavGroundspeeds,
                                 v \in VnavVerticalSpeeds}

\* A caller about to call the function prog on the arguments vals.
EngineStart ==
    /\ prog \in Engines
    /\ vals \in EngineInputs(prog)
    /\ pc = "call"
    /\ argv = <<>>
    /\ long64 = TRUE
    /\ force_error = 0
    /\ fill_i = 0
    /\ out = <<>>
    /\ err = <<>>
    /\ calls = <<>>
    /\ exit_code = <<>>

\* The call returns result.
Returned(result) ==
    /\ calls' = <<result>>
    /\ pc' = "done"
    /\ UNCHANGED <<prog, argv, long64, vals, force_error, fill_i, out, err,
                   exit_code>>

CallTurnPerformance ==
    /\ prog = "calculate_turn_performance" /\ pc = "call"
    /\ Returned(calculate_turn_performance(vals[1], vals[2], vals[3]))

CallNormalizeAngle ==
    /\ prog = "normalize_angle" /\ pc = "call"
    /\ Returned(normalize_angle(vals[1]))

CallWind ==
    /\ prog = "calculate_wind" /\ pc = "call"
    /\ Returned(calculate_wind(vals[1], vals[2], vals[3], vals[4]))

CallVnav ==
    /\ prog = "calculate_vnav" /\ pc = "call"
    /\ Returned(calculate_vnav(vals[1], vals[2], vals[3], vals[4], vals[5]))

CallDensity ==
    /\ prog = "calculate_density_altitude_data" /\ pc = "call"
    /\ Returned(calculate_density_altitude_data(vals[1], vals[2], vals[3], vals[4]))

CallEnergy ==
    /\ prog = "calculate_energy" /\ pc = "call"
    /\ Returned(calculate_energy(vals[1], vals[2], vals[3]))

CallWindVector ==
    /\ prog = "calculate_wind_vector" /\ pc = "call"
    /\ Returned(calculate_wind_vector(vals[1], vals[2], vals[3], vals[4], vals[5],
                                      Len(vals[5])))

(***************************************************************************)
(* The mathematical C(n, k), by Pascal's rule on five-limb numbers          *)
(***************************************************************************)

\* Row n of Pascal's triangle from row n - 1 (entries 1 .. n + 1 are
\* C(n, 0) .. C(n, n)).
PascalNext(row) ==
    LET n == Len(row)
    IN  [j \in 1..(n + 1) |->
            IF j = 1 \/ j = n + 1 THEN Limbs(1, 5)
            ELSE AddLimbs(row[j - 1], row[j], 0)]

RECURSIVE PascalRows(_)
PascalRows(n) ==
    IF n = 0 THEN << <<Limbs(1, 5)>> >>
    ELSE LET prev == PascalRows(n - 1)
         IN  Append(prev, PascalNext(prev[n]))

\* Rows 0 .. MaxN + 1, computed once.
Pascal == PascalRows(MaxN + 1)

\* C(n, k) for 0 <= k <= n <= MaxN + 1, exact.
Choose(n, k) == Pascal[n + 1][k + 1]

(***************************************************************************)
(* testcase: the output comparison utility (testcase.cpp)                  *)
(*                                                                         *)
(* A text is a sequence of characters; a stream is a text, the position of *)
(* the next character to read, and the eofbit and failbit of its state.    *)
(***************************************************************************)

\* The characters of the texts tried: two letters and the line feed.
Chars == {"p", "q", "\n"}

\* Length of the longest text piped in or stored in the expected file.
MaxText == 3

Texts == UNION {[1..n -> Chars] : n \in 0..MaxText}

\* A stream over text t that nothing has been read from.
Stream(t) == [text |-> t, pos |-> 1, eof |-> FALSE, fail |-> FALSE]

\* ss << f.rdbuf();  inserting no character sets the failbit of ss.
slurp(t) == [Stream(t) EXCEPT !.fail = (t = <<>>)]

\* std::getline(is, str): the stream and the string after the call.  A
\* stream that is not good() fails at once and leaves str alone; otherwise
\* the characters up to the next line feed are stored and the line feed is
\* dropped; reaching the end sets eofbit, and failbit too when nothing was
\* read.
getline(is, str) ==
    IF is.fail \/ is.eof
    THEN [is |-> [is EXCEPT !.fail = TRUE], str |-> str]
    ELSE LET feeds == {i \in is.pos..Len(is.text) : is.text[i] = "\n"}
             stop  == IF feeds = {} THEN Len(is.text) + 1
                      ELSE CHOOSE i \in feeds : \A j \in feeds : i <= j
             line  == SubSeq(is.text, is.pos, stop - 1)
         IN  [is  |-> [text |-> is.text,
                       pos  |-> IF feeds = {} THEN stop ELSE stop + 1,
                       eof  |-> feeds = {},
                       fail |-> feeds = {} /\ line = <<>>],
              str |-> line]

\* if (!(std::getline(ss, b)) || a != b)
mismatch_compare_only(got, x, y) == got /\ x # y
mismatch(got, x, y) == ~got \/ x # y

\* The exit status of a process whose main returns r.
exit_status(r) == r % 256

\* The name of the expected file on the command line.
expected_output == <<"t">>

\* A process about to enter main: the command line, the file and the text
\* piped in.
TestStart ==
    /\ prog = "testcase"
    /\ argv \in {<<>>, <<expected_output>>}
    /\ \E t \in Texts : cin = Stream(t)
    /\ file \in {[exists |-> FALSE, text |-> <<>>]}
                \cup {[exists |-> TRUE, text |-> t] : t \in Texts}
    /\ ss = Stream(<<>>)
    /\ line_a = <<>>
    /\ line_b = <<>>
    /\ ret = FALSE
    /\ pc = "start"
    /\ long64 = TRUE
    /\ vals = <<>>
    /\ force_error = 0
    /\ fill_i = 0
    /\ out = <<>>
    /\ err = <<>>
    /\ calls = <<>>
    /\ exit_code = <<>>

\* No testcase process (the other specifications).
TestIdle ==
    /\ cin = Stream(<<>>)
    /\ file = [exists |-> FALSE, text |-> <<>>]
    /\ ss = Stream(<<>>)
    /\ line_a = <<>>
    /\ line_b = <<>>
    /\ ret = FALSE

\* if (argc == 1) { std::cerr << "Usage: ..."; return -1; }
TestArgc ==
    /\ prog = "testcase" /\ pc = "start"
    /\ IF argc = 1 THEN Return(exit_status(-1), <<"Usage">>) ELSE Goto("open")
    /\ UNCHANGED <<prog, argv, long64, vals, force_error, fill_i, out, calls>>
    /\ UNCHANGED testvars

\* std::ifstream f(argv[1]); if (!f) { ...; return -1; }
\* ss << f.rdbuf(); std::string a, b; bool ret = false;
TestOpen ==
    /\ prog = "testcase" /\ pc = "open"
    /\ IF ~file.exists
       THEN /\ Return(exit_status(-1), <<"File not found">>)
            /\ UNCHANGED <<ss, line_a, line_b, ret>>
       ELSE /\ Goto("loop")
            /\ ss' = slurp(file.text)
            /\ line_a' = <<>>
            /\ line_b' = <<>>
            /\ ret' = FALSE
    /\ UNCHANGED <<prog, argv, long64, vals, force_error, fill_i, out, calls>>
    /\ UNCHANGED <<cin, file>>

\* One evaluation of while (std::getline(std::cin, a)) and, when it holds,
\* the body: the test against the next expected line and the echo.
TestLine ==
    /\ prog = "testcase" /\ pc = "loop"
    /\ LET got_a == getline(cin, line_a)
           got_b == getline(ss, line_b)
       IN  /\ cin' = got_a.is
           /\ line_a' = got_a.str
           /\ IF ~got_a.is.fail
              THEN /\ ss' = got_b.is
                   /\ line_b' = got_b.str
                   /\ ret' = (ret \/ mismatch(~got_b.is.fail, got_a.str, got_b.str))
                   /\ out' = Append(out, got_a.str)
                   /\ Goto("loop")
              ELSE /\ Goto("tail")
                   /\ UNCHANGED <<ss, line_b, ret, out>>
    /\ UNCHANGED <<prog, argv, long64, vals, force_error, fill_i, calls>>
    /\ UNCHANGED file

\* if (std::getline(ss, b)) ret = true;  return ret;
TestTail ==
    /\ prog = "testcase" /\ pc = "tail"
    /\ LET got_b == getline(ss, line_b)
           last  == ret \/ ~got_b.is.fail
       IN  /\ ss' = got_b.is
           /\ line_b' = got_b.str
           /\ ret' = last
           /\ Return(exit_status(IF last THEN 1 ELSE 0), <<>>)
    /\ UNCHANGED <<prog, argv, long64, vals, force_error, fill_i, out, calls>>
    /\ UNCHANGED <<cin, file, line_a>>

(***************************************************************************)
(* Specifications                                                          *)
(***************************************************************************)

BufInit == BufStart /\ BinomIdle /\ RunIdle /\ TestIdle
BufNext == BufAdd /\ UNCHANGED <<binvars, runvars, testvars>>
SpecBuf == BufInit /\ [][BufNext]_vars

BinomInit == BinomStart /\ BufIdle /\ RunIdle /\ TestIdle
BinomNext ==
    \/ BinomDirect /\ UNCHANGED <<bufvars, runvars, testvars>>
    \/ BinomEnterLoop /\ UNCHANGED <<bufvars, runvars, testvars>>
    \/ BinomIter /\ UNCHANGED <<bufvars, runvars, testvars>>
    \/ BinomExit /\ UNCHANGED <<bufvars, runvars, testvars>>
SpecBinom == BinomInit /\ [][BinomNext]_vars

Init == RunStart /\ BufIdle /\ BinomIdle /\ TestIdle
Next ==
    \/ TurnArgc /\ UNCHANGED <<bufvars, binvars, testvars>>
    \/ TurnParse /\ UNCHANGED <<bufvars, binvars, testvars>>
    \/ TurnCheckTas /\ UNCHANGED <<bufvars, binvars, testvars>>
    \/ TurnCheckBank /\ UNCHANGED <<bufvars, binvars, testvars>>
    \/ TurnCalc /\ UNCHANGED <<bufvars, binvars, testvars>>
    \/ WindArgc /\ UNCHANGED <<bufvars, binvars, testvars>>
    \/ WindParse /\ UNCHANGED <<bufvars, binvars, testvars>>
    \/ WindCheckSpeed /\ UNCHANGED <<bufvars, binvars, testvars>>
    \/ WindCalc /\ UNCHANGED <<bufvars, binvars, testvars>>
    \/ VnavArgc /\ UNCHANGED <<bufvars, binvars, testvars>>
    \/ VnavParse /\ UNCHANGED <<bufvars, binvars, testvars>>
    \/ VnavCalc /\ UNCHANGED <<bufvars, binvars, testvars>>
    \/ DensityArgc /\ UNCHANGED <<bufvars, binvars, testvars>>
    \/ DensityFlag /\ UNCHANGED <<bufvars, binvars, testvars>>
    \/ DensityForce /\ UNCHANGED <<bufvars, binvars, testvars>>
    \/ DensityParse /\ UNCHANGED <<bufvars, binvars, testvars>>
    \/ DensityWarnAlt /\ UNCHANGED <<bufvars, binvars, testvars>>
    \/ DensityWarnTemp /\ UNCHANGED <<bufvars, binvars, testvars>>
    \/ DensityCalc /\ UNCHANGED <<bufvars, binvars, testvars>>
    \/ FlightArgc /\ UNCHANGED <<binvars, testvars>>
    \/ FlightParse /\ UNCHANGED <<binvars, testvars>>
    \/ FlightConstruct /\ UNCHANGED <<binvars, testvars>>
    \/ FlightFill /\ UNCHANGED <<binvars, testvars>>
    \/ FlightCalc /\ UNCHANGED <<binvars, testvars>>
Spec == Init /\ [][Next]_vars

EngineInit == EngineStart /\ BufIdle /\ BinomIdle /\ TestIdle
EngineNext ==
    \/ CallTurnPerformance /\ UNCHANGED <<bufvars, binvars, testvars>>
    \/ CallNormalizeAngle /\ UNCHANGED <<bufvars, binvars, testvars>>
    \/ CallWind /\ UNCHANGED <<bufvars, binvars, testvars>>
    \/ CallVnav /\ UNCHANGED <<bufvars, binvars, testvars>>
    \/ CallDensity /\ UNCHANGED <<bufvars, binvars, testvars>>
    \/ CallEnergy /\ UNCHANGED <<bufvars, binvars, testvars>>
    \/ CallWindVector /\ UNCHANGED <<bufvars, binvars, testvars>>
SpecEngine == EngineInit /\ [][EngineNext]_vars

TestInit == TestStart /\ BufIdle /\ BinomIdle
TestNext ==
    \/ TestArgc /\ UNCHANGED <<bufvars, binvars>>
    \/ TestOpen /\ UNCHANGED <<bufvars, binvars>>
    \/ TestLine /\ UNCHANGED <<bufvars, binvars>>
    \/ TestTail /\ UNCHANGED <<bufvars, binvars>>
SpecTest == TestInit /\ [][TestNext]_vars

(***************************************************************************)
(* Claims about binomial_coefficient                                        *)
(***************************************************************************)

\* C3: binomial_coefficient(n, k) = binomial_coefficient(n, n - k) for all
\* 0 <= k <= n, binomial_coefficient(n, 0) = 1 for all n, and
\* binomial_coefficient(n, k) = 0 for all k > n.
C3_SymmetryAndEdges ==
    bpc = "return" =>
        /\ bk0 <= bn => bresult = binomial_coefficient(bn, bn - bk0)
        /\ bk0 = 0 => bresult = Limbs(1, 4)
        /\ bk0 > bn => bresult = Limbs(0, 4)

\* C3 witness: a call on the special-cased branch k = n - 1 (answered by the
\* loop) has returned n, the value the mirrored call k = 1 returns directly.
C3_Witness ==
    /\ bpc = "return"
    /\ bn >= 4 /\ bk0 = bn - 1
    /\ bi = 2
    /\ bresult = Limbs(bn, 4)

\* C4 (as claimed): whenever the true C(n, k) is below 2^64, no product
\* result * (n - k + i) exceeds 2^64 - 1 and the value returned is C(n, k).
C4_NoIntermediateOverflow ==
    (bpc = "return" /\ bk0 <= bn /\ ~Exceeds64(Choose(bn, bk0))) =>
        /\ ~bwrapped
        /\ bresult = Trunc64(Choose(bn, bk0))

(***************************************************************************)
(* The command-line contract, stated on the tokens                         *)
(***************************************************************************)

Exited == pc = "done" /\ prog \in Programs
ExitedWith(code) == Exited /\ exit_code = <<code>>
NoResultBlock == out = <<>> /\ calls = <<>>

\* The numbers of arguments (argv[0] not counted) each calculator takes.
ArgCounts(p) ==
    CASE p = "wind"    -> {4}
      [] p = "turn"    -> {3}
      [] p = "vnav"    -> {5}
      [] p = "density" -> {4, 5}
      [] p = "flight"  -> {14}

ArgcAccepted == Len(argv) \in ArgCounts(prog)

\* The tokens in double positions (density's fifth is an integer flag).
DoublePositions == 1..(IF prog = "density" THEN 4 ELSE Len(argv))
SomeDoubleNonNumeric == \E i \in DoublePositions : ~IsNumeric(argv[i])
AllDoublesNumeric == \A i \in DoublePositions : IsNumeric(argv[i])

FlagPresent == prog = "density" /\ Len(argv) = 5
FlagNonNumeric == FlagPresent /\ ~IsInteger(argv[5])
\* The flag's value as parse_int32 delivers it (force_error starts at 0).
FlagValue == parse_int32(argv[5], long64, 0).value
FlagIsOne == FlagPresent /\ IsInteger(argv[5]) /\ FlagValue = 1

\* The value the i-th token converts to.
Value(i) == parse_double(argv[i]).value

\* C5 as stated: a wrong argument count exits 1; with an accepted count, a
\* non-numeric token in any numeric position exits 2, whatever the other
\* arguments are (density's fifth included); no result block either way.
C5_ArgcAndParseFailures ==
    Exited =>
        /\ ~ArgcAccepted => exit_code = <<invalid_argc>> /\ NoResultBlock
        /\ ArgcAccepted /\ (SomeDoubleNonNumeric \/ FlagNonNumeric) =>
              exit_code = <<parse_failed>> /\ NoResultBlock

\* C5, amended: a wrong argument count exits 1; with an accepted count, a
\* non-numeric token in a numeric position exits 2, except that in the
\* density tool a fifth argument that parses to 1 is acted on before the four
\* numbers are parsed and exits 4; no result block in any of these cases.
C5_ParseFailureUnlessForced ==
    Exited =>
        /\ ~ArgcAccepted => exit_code = <<invalid_argc>> /\ NoResultBlock
        /\ ArgcAccepted /\ (SomeDoubleNonNumeric \/ FlagNonNumeric) =>
              /\ exit_code = IF FlagIsOne THEN <<simulated>> ELSE <<parse_failed>>
              /\ NoResultBlock

\* A density run with a non-numeric number and a fifth argument that parses
\* to another integer than 1 has exited 2; and so has a flight run.
C5_Witness ==
    /\ ExitedWith(parse_failed)
    /\ FlagPresent /\ IsInteger(argv[5]) /\ FlagValue # 1
    /\ SomeDoubleNonNumeric
    /\ NoResultBlock

\* C6: when all tokens parse, turn exits 3 without a result block for
\* tas <= 0 and for bank < 0 or bank > 90 and accepts bank 0 and bank 90;
\* wind exits 3 without a result block for wind_speed < 0 and accepts 0.
C6_DomainRejections ==
    Exited /\ ArgcAccepted /\ AllDoublesNumeric =>
        /\ prog = "turn" =>
              IF Value(1) <= 0 \/ Value(2) < 0 \/ Value(2) > 90 * Centi
              THEN exit_code = <<invalid_value>> /\ NoResultBlock
              ELSE exit_code = <<success>> /\ out # <<>>
        /\ prog = "wind" =>
              IF Value(4) < 0
              THEN exit_code = <<invalid_value>> /\ NoResultBlock
              ELSE exit_code = <<success>> /\ out # <<>>

\* A turn run with a bank angle just above 90 has been rejected.
C6_Witness ==
    /\ ExitedWith(invalid_value)
    /\ prog = "turn" /\ AllDoublesNumeric
    /\ Value(1) > 0 /\ Value(2) > 90 * Centi
    /\ NoResultBlock

\* The checks a calculator makes before its engine, stated on the tokens.
ChecksPassed ==
    /\ ArgcAccepted
    /\ AllDoublesNumeric
    /\ FlagPresent => IsInteger(argv[5])
    /\ prog = "turn" => Value(1) > 0 /\ Value(2) >= 0 /\ Value(2) <= 90 * Centi
    /\ prog = "wind" => Value(4) >= 0

\* The calculation functions that make up each calculator's engine.
EngineFunctions(p) ==
    CASE p = "wind"    -> {"calculate_wind"}
      [] p = "turn"    -> {"calculate_turn_performance"}
      [] p = "vnav"    -> {"calculate_vnav"}
      [] p = "density" -> {"calculate_density_altitude_data"}
      [] p = "flight"  -> {"calculate_wind_vector", "calculate_envelope",
                           "calculate_energy", "calculate_glide_reach"}

\* C7: the engine runs at most once per process (no calculation function
\* is called twice, and nothing runs after the engine but the exit), only
\* after the argument count, every parse and every domain check have passed;
\* the result block is on stdout iff the exit status is 0, and on a non-zero
\* exit the engine was never invoked.
C7_EngineOnceAfterChecks ==
    /\ \A i, j \in 1..Len(calls) : calls[i].fn = calls[j].fn => i = j
    /\ \A i \in 1..Len(calls) : calls[i].fn \in EngineFunctions(prog)
    /\ calls # <<>> => ChecksPassed /\ ExitedWith(success)
    /\ Len(out) <= 1
    /\ out # <<>> => calls # <<>> /\ out[1].results = calls
    /\ Exited => (out # <<>> <=> exit_code = <<success>>)
    /\ Exited /\ exit_code # <<success>> => calls = <<>>

\* A flight run has called its four calculation functions, once each, printed
\* the result block and exited 0.
C7_Witness ==
    /\ ExitedWith(success)
    /\ prog = "flight"
    /\ Len(calls) = 4
    /\ out # <<>>

\* C8: on every accepted argument vector, no division the engine executes
\* has a zero denominator.
C8_NoZeroDenominator ==
    ExitedWith(success) =>
        \A i \in 1..Len(calls) :
            \A d \in 1..Len(calls[i].divisions) : ~calls[i].divisions[d].zero

\* What the density tool does with four arguments a[1..4], stated on the
\* tokens: the first non-numeric one ends it with status 2 and its message;
\* otherwise the warnings, the engine on the four values, status 0.
FourArgumentOutcome(a) ==
    IF \E i \in 1..4 : ~IsNumeric(a[i])
    THEN LET bad == CHOOSE i \in 1..4 :
                        /\ ~IsNumeric(a[i])
                        /\ \A j \in 1..(i - 1) : IsNumeric(a[j])
         IN  [status |-> <<parse_failed>>,
              err    |-> <<density_parse_msg[bad]>>,
              out    |-> <<>>]
    ELSE LET v == [i \in 1..4 |-> parse_double(a[i]).value]
         IN  [status |-> <<success>>,
              err    |->
                 (IF v[1] < min_altitude_ft \/ v[1] > max_altitude_ft
                  THEN <<"Warning: Pressure altitude outside typical range">>
                  ELSE <<>>)
                 \o (IF v[2] < min_temperature_c \/ v[2] > max_temperature_c
                     THEN <<"Warning: Temperature outside typical range">>
                     ELSE <<>>),
              out    |->
                 <<[block   |-> "density",
                    results |-> <<calculate_density_altitude_data(
                                      v[1], v[2], v[3], v[4])>>]>>]

Outcome == [status |-> exit_code, err |-> err, out |-> out]

\* C9: the density tool exits 4, without a result block, exactly when its
\* fifth argument parses to the integer 1; with the fifth argument absent or
\* parsing to another integer its exit status, stdout and stderr are those of
\* the invocation with the first four arguments alone; no other calculator
\* exits 4.
C9_SimulatedOnlyByFlagOne ==
    Exited =>
        /\ prog = "density" /\ ArgcAccepted =>
              /\ exit_code = <<simulated>> <=> FlagIsOne
              /\ FlagIsOne => NoResultBlock
              /\ ~FlagPresent \/ (IsInteger(argv[5]) /\ FlagValue # 1) =>
                    Outcome = FourArgumentOutcome(SubSeq(argv, 1, 4))
        /\ exit_code = <<simulated>> => prog = "density"

\* A density run whose fifth argument is 1 has exited 4.
C9_Witness ==
    /\ ExitedWith(simulated)
    /\ prog = "density"
    /\ argv[5] = <<"1">>
    /\ NoResultBlock

WarnedAltitude ==
    \E i \in 1..Len(err) :
        err[i] = "Warning: Pressure altitude outside typical range"
WarnedTemperature ==
    \E i \in 1..Len(err) : err[i] = "Warning: Temperature outside typical range"

\* C10: in the density tool, once the four numbers parse (and no failure is
\* forced), an altitude outside [-2000, 60000] or a temperature outside
\* [-60, 60] is warned about on stderr and nothing else: the engine gets the
\* values as parsed, the result block is printed, the exit status is 0; on
\* the bounds themselves and inside them there is no warning.
C10_OutOfRangeOnlyWarns ==
    Exited /\ prog = "density" /\ ArgcAccepted /\ AllDoublesNumeric
           /\ (FlagPresent => IsInteger(argv[5]) /\ FlagValue # 1) =>
        /\ WarnedAltitude <=>
              (Value(1) < -2000 * Centi \/ Value(1) > 60000 * Centi)
        /\ WarnedTemperature <=>
              (Value(2) < -60 * Centi \/ Value(2) > 60 * Centi)
        /\ Len(calls) = 1
        /\ calls[1].args = <<Value(1), Value(2), Value(3), Value(4)>>
        /\ Len(out) = 1 /\ out[1].results = calls
        /\ exit_code = <<success>>

\* A density run with the altitude and the temperature both out of range
\* has warned twice, printed its result and exited 0.
C10_Witness ==
    /\ ExitedWith(success)
    /\ prog = "density"
    /\ Value(1) > 60000 * Centi /\ Value(2) < -60 * Centi
    /\ WarnedAltitude /\ WarnedTemperature
    /\ Len(out) = 1
    /\ calls[1].args[1] = Value(1) /\ calls[1].args[2] = Value(2)

(***************************************************************************)
(* The engines' results                                                    *)
(***************************************************************************)

\* The function f has returned.
Called(f) == prog = f /\ pc = "done"

\* |tan(bank)| < 0.001, stated on sine and cosine: 1000 |sin| < |cos|.
TanBelowThousandth(bank) == 1000 * Abs(sin_deg(bank)) < Abs(cos_deg(bank))

\* C11: whenever |tan(bank)| < 0.001, for every TAS and course change,
\* calculate_turn_performance returns radius_nm = 999.9, radius_ft = 999900,
\* turn_rate_dps = 0, both lead distances 0 and time_to_turn_sec = 999.9 and
\* divides nothing by tan(bank); load_factor is still 1 / cos(bank) and
\* standard_rate_bank still the arctangent of 0.0027467 per knot of TAS.
C11_WingsLevelSentinels ==
    Called("calculate_turn_performance") /\ TanBelowThousandth(vals[2]) =>
        LET r == calls[1]
        IN  /\ r.wings_level
            /\ r.radius_nm = (9999 * Centi) \div 10
            /\ r.radius_ft = 999900 * Centi
            /\ r.turn_rate_dps = 0
            /\ r.lead_distance_nm = 0 /\ r.lead_distance_ft = 0
            /\ r.time_to_turn_sec = (9999 * Centi) \div 10
            /\ \A d \in 1..Len(r.divisions) :
                   r.divisions[d].site # "(v_ms * v_ms) / (gravity * tan_phi)"
            /\ r.load_factor = [num |-> TrigScale, den |-> cos_deg(vals[2])]
            /\ r.standard_rate_bank =
                   atan_deg((vals[1] * 27467) \div (10 * TrigScale))

\* A bank of 0.05 degrees at 250 kt has returned the sentinels, with a
\* standard-rate bank of 34 degrees.
C11_Witness ==
    /\ Called("calculate_turn_performance")
    /\ vals[1] = 250 * Centi /\ vals[2] = 5
    /\ calls[1].radius_nm = (9999 * Centi) \div 10
    /\ calls[1].standard_rate_bank = 34 * Centi

\* q1 < q2 for the magnitudes of two quotients num / den.
QuotientLess(q1, q2) ==
    LimbsLess(MulSmall(q1.num, q2.den, 0), MulSmall(q2.num, q1.den, 0))

\* The radius a call with TAS v and bank b gives, when not wings-level.
RadiusOf(v, b) == calculate_turn_performance(v, b, 0).radius_nm.of

\* C12 as stated: for every bank with |tan(bank)| >= 0.001 and every TAS
\* v > 0 the radius (radius_nm and radius_ft) is > 0.
C12_RadiusPositiveEveryBank ==
    Called("calculate_turn_performance") /\ ~TanBelowThousandth(vals[2])
                                         /\ vals[1] > 0 =>
        /\ calls[1].radius_nm.of.sign = 1
        /\ calls[1].radius_ft.of.sign = 1

\* C12, amended: for every bank in (0, 90] degrees with |tan(bank)| >= 0.001
\* and every TAS v > 0 the radius (radius_nm and radius_ft) is > 0; over the
\* banks in (0, 90) degrees it strictly increases with v for a fixed bank and
\* strictly decreases with the bank for a fixed v.
C12_RadiusPositiveAndMonotone ==
    Called("calculate_turn_performance") /\ ~TanBelowThousandth(vals[2])
            /\ vals[1] > 0 /\ vals[2] > 0 /\ vals[2] <= 90 * Centi =>
        /\ calls[1].radius_nm.of.sign = 1
        /\ calls[1].radius_ft.of.sign = 1
        /\ calls[1].radius_ft.of = calls[1].radius_nm.of
        /\ \A v \in TurnSpeeds :
              v > vals[1] /\ vals[2] < 90 * Centi =>
                 QuotientLess(calls[1].radius_nm.of, RadiusOf(v, vals[2]))
        /\ \A b \in TurnBanks :
              vals[2] < b /\ b < 90 * Centi =>
                 QuotientLess(RadiusOf(vals[1], b), calls[1].radius_nm.of)

\* A 45 degree bank at 100 kt has returned a positive radius, smaller than
\* at 250 kt and larger than at 89 degrees.
C12_Witness ==
    /\ Called("calculate_turn_performance")
    /\ vals[1] = 100 * Centi /\ vals[2] = 45 * Centi
    /\ calls[1].radius_nm.of.sign = 1
    /\ QuotientLess(calls[1].radius_nm.of, RadiusOf(250 * Centi, 45 * Centi))
    /\ QuotientLess(RadiusOf(100 * Centi, 89 * Centi), calls[1].radius_nm.of)

\* C13: normalize_angle(a) lies in [0, 360) for every a; it is unchanged by
\* adding a multiple of 360 to a; hence it is idempotent.
C13_NormalizedRange ==
    Called("normalize_angle") =>
        /\ 0 <= calls[1] /\ calls[1] < Fine(360 * Centi)
        /\ \A m \in -2..2 :
              normalize_angle(fl_add(vals[1], m * Fine(360 * Centi))) = calls[1]
        /\ normalize_angle(calls[1]) = calls[1]

\* The arguments of the last call of calculate_wind.
WindTrack == vals[1]
WindDir == vals[3]
WindSpeed == vals[4]

\* x and y differ by a multiple of 360 degrees.
Congruent(x, y) == (x - y) % (360 * Centi) = 0

C15_HeadwindPositiveFromAhead ==
    Called("calculate_wind") =>
        /\ Congruent(WindDir, WindTrack) => calls[1].headwind = WindSpeed
        /\ Congruent(WindDir, WindTrack + 180 * Centi) =>
              calls[1].headwind = -WindSpeed
        /\ Congruent(WindDir, WindTrack + 90 * Centi) /\ WindSpeed > 0 =>
              calls[1].crosswind > 0

\* C16: calculate_vnav returns a positive vs_for_3deg whenever the solution
\* is a climb (target above current altitude, is_descent false), for every
\* groundspeed after clamping.
C16_Vs3degPositiveInClimb ==
    Called("calculate_vnav") /\ vals[2] > vals[1] =>
        /\ ~calls[1].is_descent
        /\ calls[1].vs_for_3deg > 0

\* C17: calculate_vnav replaces distance_nm < 0.01 by 0.01 and
\* groundspeed_kts < 1 by 1 (zero and negative included) before any division
\* or multiplication that uses them and leaves larger values unchanged; the
\* VNAV entry point never rejects a parsed value: with five parseable
\* arguments it exits 0, never 3.
C17_VnavClampsAndAccepts ==
    Exited /\ prog = "vnav" =>
        /\ exit_code # <<invalid_value>>
        /\ ArgcAccepted /\ AllDoublesNumeric =>
              LET distance    == IF Value(3) < 1 THEN 1 ELSE Value(3)
                  groundspeed == IF Value(4) < 1 * Centi THEN 1 * Centi
                                 ELSE Value(4)
                  change      == Abs(Value(2) - Value(1))
              IN  /\ exit_code = <<success>>
                  /\ Len(calls) = 1
                  /\ calls[1].distance_nm = distance
                  /\ calls[1].groundspeed_kts = groundspeed
                  /\ Abs(calls[1].vs_for_3deg) =
                         Rounded(groundspeed * 5307, 1000)
                  /\ change > 1 * Centi =>
                         calls[1].distance_per_1000ft =
                             Rounded(distance * 1000 * Centi, change)
                  /\ \A d \in 1..Len(calls[1].divisions) :
                         ~calls[1].divisions[d].zero

\* A VNAV run with distance 0 and groundspeed 0.99 has exited 0 with both
\* clamped.
C17_Witness ==
    /\ ExitedWith(success)
    /\ prog = "vnav"
    /\ Value(3) = 0 /\ Value(4) = 99
    /\ calls[1].distance_nm = 1 /\ calls[1].groundspeed_kts = 1 * Centi

\* C18: time_to_constraint_min is altitude_change / current_vs only when
\* |current_vs_fpm| > 1 and the sentinel 999.9 otherwise (|current_vs_fpm|
\* exactly 1 and 0 included); the division by current_vs never has a zero
\* denominator.
C18_TimeToConstraintGate ==
    Called("calculate_vnav") =>
        LET r  == calls[1]
            vs == vals[5]
        IN  /\ IF vs > 1 * Centi \/ vs < -(1 * Centi)
               THEN 2 * Abs(r.time_to_constraint_min * vs
                            - (vals[2] - vals[1]) * Centi) <= Abs(vs)
               ELSE r.time_to_constraint_min = (9999 * Centi) \div 10
            /\ \A d \in 1..Len(r.divisions) :
                  r.divisions[d].site = "altitude_change_ft / current_vs_fpm" =>
                     ~r.divisions[d].zero /\ vs # 0

\* A call with current_vs_fpm exactly 1 has returned the sentinel.
C18_Witness ==
    /\ Called("calculate_vnav")
    /\ vals[5] = 1 * Centi
    /\ vals[2] # vals[1]
    /\ calls[1].time_to_constraint_min = (9999 * Centi) \div 10

\* C19: calculate_density_altitude_data at pressure altitude 0 and OAT 15
\* returns temperature deviation 0, density altitude 0, density ratio 1 and
\* performance loss 0; in general the density altitude is
\* PA + 120 * (OAT - (15 - 0.0019812 * PA)); at PA 5000 and OAT 25 the ISA
\* temperature is about 5.1 (deviation about 19.9) and the density altitude
\* about 7388. Values are compared to the hundredth.
C19_DensityAltitudeFormula ==
    Called("calculate_density_altitude_data") =>
        LET r        == calls[1]
            pa       == vals[1]
            oat      == vals[2]
            lapse_c  == r.temperature_deviation_c - oat + 15 * Centi
        IN  /\ pa = 0 /\ oat = 15 * Centi =>
                  /\ r.temperature_deviation_c = 0
                  /\ r.density_altitude_ft = 0
                  /\ r.air_density_ratio = 10000
                  /\ r.performance_loss_pct = 0
            /\ Abs(100000 * lapse_c - 19812 * (pa \div Centi)) <= 50000
            /\ Abs(r.density_altitude_ft - pa - 120 * r.temperature_deviation_c) <= 60
            /\ pa = 5000 * Centi /\ oat = 25 * Centi =>
                  /\ r.temperature_deviation_c \in {1990, 1991}
                  /\ oat - r.temperature_deviation_c \in {509, 510}
                  /\ r.density_altitude_ft \div Centi = 7388

\* A call at pressure altitude 5000 and OAT 25 has returned a density
\* altitude above the pressure altitude.
C19_Witness ==
    /\ Called("calculate_density_altitude_data")
    /\ vals[1] = 5000 * Centi /\ vals[2] = 25 * Centi
    /\ calls[1].density_altitude_ft > vals[1]

\* C20: tas_to_ias_ratio is tas / ias only when ias > 10 and exactly 1.0
\* otherwise (ias exactly 10, zero and negative included); the division
\* never has a zero denominator. The quotient is compared to the hundredth.
C20_TasToIasRatioGate ==
    Called("calculate_density_altitude_data") =>
        LET r   == calls[1]
            ias == vals[3]
            tas == vals[4]
        IN  /\ IF ias > 10 * Centi
               THEN 2 * Abs(r.tas_to_ias_ratio * ias - tas * Centi) <= ias
               ELSE r.tas_to_ias_ratio = 1 * Centi
            /\ \A d \in 1..Len(r.divisions) :
                  r.divisions[d].site = "tas_kts / ias_kts" =>
                     ~r.divisions[d].zero /\ ias > 10 * Centi

\* A call with ias exactly 10 and a different tas has returned the ratio 1.
C20_Witness ==
    /\ Called("calculate_density_altitude_data")
    /\ vals[3] = 10 * Centi /\ vals[4] = 170 * Centi
    /\ calls[1].tas_to_ias_ratio = 1 * Centi

\* C21: calculate_energy reports the trend increasing (1) exactly when
\* vs_fpm > 50, decreasing (-1) exactly when vs_fpm < -50 and stable (0) for
\* every vs_fpm in [-50, 50], both endpoints included; the value depends on
\* vs_fpm alone.
C21_TrendThreeWay ==
    Called("calculate_energy") =>
        LET t  == calls[1].trend
            vs == vals[3]
        IN  /\ t \in {-1, 0, 1}
            /\ t = 1 <=> vs > 50 * Centi
            /\ t = -1 <=> vs < -(50 * Centi)
            /\ (vs >= -(50 * Centi) /\ vs <= 50 * Centi) => t = 0
            /\ \A tas \in EnergySpeeds, alt \in EnergyAltitudes :
                  calculate_energy(tas, alt, vs).trend = t

\* A call with vs_fpm exactly -50 has returned stable.
C21_Witness ==
    /\ Called("calculate_energy")
    /\ vals[3] = -(50 * Centi)
    /\ calls[1].trend = 0

\* C22: the gust factor of calculate_wind_vector is 0 for fewer than 2
\* samples, and for 2 or more it does not depend on the order of the
\* samples: computed over the physical slots 0 .. size-1 of the buffer it
\* equals the value computed over the same samples in insertion order.
C22_GustFactorOrderFree ==
    /\ get_size < 2 => gust_factor(View, get_size) = [nan |-> FALSE, value |-> 0]
    /\ get_size >= 2 =>
          gust_factor(View, get_size) = gust_factor(OldestFirst, get_size)

\* C23: every invocation of the README's Calculators section supplies an
\* argument count its calculator accepts: none of them exits with
\* invalid_argc (1).
C23_ReadmeExamplesPassArgc ==
    Exited /\ argv = Readme(prog) => exit_code # <<invalid_argc>>

\* C24: in calculate_wind the drift angle and the wind-from-relative angle
\* both lie in (-180, 180] for every track, heading and wind direction: a
\* difference of exactly 180 stays +180, never -180, and drift is congruent
\* to track - heading modulo 360.  The second conjunct covers the
\* differences normalize_angle maps to 360.0: they too are brought into the
\* interval.
C24_RelativeAnglesHalfOpen ==
    /\ Called("calculate_wind") =>
          LET r       == calls[1]
              heading == vals[2]
          IN  /\ r.drift > -(180 * Centi) /\ r.drift <= 180 * Centi
              /\ r.wind_from_relative > -(180 * Centi)
              /\ r.wind_from_relative <= 180 * Centi
              /\ Congruent(r.drift, WindTrack - heading)
              /\ Congruent(r.wind_from_relative, WindDir - WindTrack)
              /\ Congruent(WindTrack - heading, 180 * Centi) =>
                    r.drift = 180 * Centi
    /\ Called("normalize_angle") =>
          LET folded == IF calls[1] > Fine(180 * Centi)
                        THEN calls[1] - Fine(360 * Centi) ELSE calls[1]
          IN  /\ folded > -Fine(180 * Centi) /\ folded <= Fine(180 * Centi)
              /\ Abs(vals[1]) > 1 => (folded - vals[1]) % Fine(360 * Centi) = 0

\* A call with track - heading = -180 has returned drift +180.
C24_Witness ==
    /\ Called("calculate_wind")
    /\ WindTrack - vals[2] = -(180 * Centi)
    /\ calls[1].drift = 180 * Centi

\* C25: direction_from of calculate_wind_vector is the bearing the wind
\* comes from: with heading = track and groundspeed < true airspeed (a pure
\* headwind) it equals the track and the headwind field is positive; with
\* groundspeed > true airspeed (a pure tailwind) it equals track + 180
\* modulo 360 and the headwind field is negative.
C25_DirectionFromIsWhereWindComesFrom ==
    Called("calculate_wind_vector") /\ vals[3] = vals[4] =>
        LET r     == calls[1]
            tas   == vals[1]
            gs    == vals[2]
            track == vals[4]
        IN  /\ gs < tas =>
                  /\ Congruent(r.direction_from, track)
                  /\ r.headwind > 0
            /\ gs > tas =>
                  /\ Congruent(r.direction_from, track + 180 * Centi)
                  /\ r.headwind < 0

\* C26: the loop of binomial_coefficient keeps the invariant that after
\* iteration i the accumulator equals C(n - k + i, i), so the dividend of
\* every division by i is a multiple of i; for 2 <= k <= n - 2 the loop
\* runs exactly min(k, n - k) iterations, and the counter i stays within
\* k + 1 <= n \div 2 + 1, so it never wraps and the loop terminates.
C26_LoopInvariant ==
    /\ bpc = "loop" =>
          /\ bresult \o <<0>> = Choose(bn - bk + bi - 1, bi - 1)
          /\ bi >= 1 /\ bi <= bk + 1 /\ 2 * bk <= bn
          /\ bi <= bk =>
                MulSmall(loop_body(bresult, bn, bk, bi), bi, 0)
                    = Trunc64(loop_product(bresult, bn, bk, bi)) \o <<0>>
    /\ (bpc = "return" /\ bk0 >= 2 /\ bk0 + 2 <= bn) =>
          bi - 1 = smaller_k(bn, bk0)

\* C27: after N add_reading calls 0 <= head_index < 20 and head_index =
\* N mod 20; while the buffer is not yet full head_index = current_size;
\* current_size never exceeds 20 and never decreases; each add_reading
\* writes the slot head_index pointed to and leaves the other 19 unchanged.
C27_RingIndices ==
    /\ [](/\ head_index >= 0 /\ head_index < max_ias_history
          /\ head_index = Len(hist) % max_ias_history
          /\ current_size < max_ias_history => head_index = current_size
          /\ current_size >= 0 /\ current_size <= max_ias_history)
    /\ [][/\ current_size' >= current_size
          /\ data'[head_index] = hist'[Len(hist')]
          /\ \A j \in 0..(max_ias_history - 1) :
                j # head_index => data'[j] = data[j]]_bufvars

\* C27 witness: the twenty-first reading has been written over slot 0 of a
\* full buffer, and slot 1 still holds the second reading.
C27_Witness ==
    /\ Len(hist) = max_ias_history + 1
    /\ head_index = 1
    /\ current_size = max_ias_history
    /\ gen = "ramp"
    /\ data[0] = hist[max_ias_history + 1]
    /\ data[1] = hist[2]

\* C28: in turn_calculator and wind_calculator every token is parsed, in
\* argument order, before any domain check.  A run with a non-numeric token
\* exits parse_failed (2) with the diagnostic of the first such position,
\* whatever the values of the arguments before it; invalid_value (3) is
\* returned only when every token is numeric, with the diagnostic of the
\* first failing domain check; no run writes more than one diagnostic, and
\* a successful run writes none.
C28_ParsesBeforeDomainChecks ==
    (Exited /\ prog \in {"turn", "wind"} /\ ArgcAccepted) =>
        LET bad       == {i \in DoublePositions : ~IsNumeric(argv[i])}
            first     == CHOOSE i \in bad : \A j \in bad : i <= j
            parse_msg == IF prog = "turn" THEN turn_parse_msg ELSE wind_parse_msg
        IN  /\ bad # {} =>
                  /\ exit_code = <<parse_failed>>
                  /\ err = <<parse_msg[first]>>
            /\ exit_code = <<invalid_value>> =>
                  /\ bad = {}
                  /\ err = IF prog = "wind"
                           THEN <<"Error: Wind speed cannot be negative">>
                           ELSE IF Value(1) <= 0
                           THEN <<"Error: TAS must be positive">>
                           ELSE <<"Error: Bank angle must be between 0 and 90 degrees">>
            /\ exit_code = <<success>> <=> err = <<>>
            /\ Len(err) <= 1

\* C28 witness: a turn run whose TAS token is -5 and whose bank token is
\* not a number has exited 2 with the bank diagnostic alone.
C28_Witness ==
    /\ ExitedWith(parse_failed)
    /\ prog = "turn" /\ Len(argv) = 3
    /\ argv[1] = <<"-", "5">> /\ ~IsNumeric(argv[2])
    /\ vals[1] = -(5 * Centi)
    /\ err = <<"Error: Invalid bank angle">>

\* C29: flight_calculator fills the history buffer with the same 30
\* readings 150 + (i mod 7) - 3 whatever its arguments are, so the buffer
\* passed to calculate_wind_vector holds 20 samples, the readings
\* i = 10 .. 29, and the gust factor reported is one and the same value
\* (0.01 in hundredths) for every accepted argument vector.
C29_GustFactorIgnoresArguments ==
    (ExitedWith(success) /\ prog = "flight") =>
        /\ Len(hist) = 30
        /\ get_size = 20
        /\ OldestFirst = [j \in 1..20 |-> (147 + ((9 + j) % 7)) * Ticks]
        /\ calls[1].gust_factor = [nan |-> FALSE, value |-> 1]

\* C29 witness: a run whose speeds and angles differ from the example's
\* (true airspeed and groundspeed 0) has reported the same gust factor.
C29_Witness ==
    /\ ExitedWith(success) /\ prog = "flight"
    /\ argv # Example("flight") /\ argv # Readme("flight")
    /\ vals[1] = 0 /\ vals[2] = 0
    /\ calls[1].gust_factor = [nan |-> FALSE, value |-> 1]

\* The lines of a text: the pieces its line feeds end, and the piece after
\* the last line feed when that piece is not empty.
Lines(t) ==
    LET feeds == {i \in 1..Len(t) : t[i] = "\n"}
        ends  == feeds \cup (IF Len(t) > 0 /\ t[Len(t)] # "\n"
                             THEN {Len(t) + 1} ELSE {})
        first(e) == IF \E i \in feeds : i < e
                    THEN 1 + CHOOSE i \in feeds :
                                 i < e /\ \A j \in feeds : j < e => j <= i
                    ELSE 1
    IN  [k \in 1..Cardinality(ends) |->
            LET e == CHOOSE x \in ends : Cardinality({y \in ends : y < x}) = k - 1
            IN  SubSeq(t, first(e), e - 1)]

\* C30: given an existing expected file, testcase exits 0 if and only if
\* the lines read from stdin equal the lines of the file, in number and
\* pair by pair; it exits non-zero when a line differs, when stdin has more
\* lines than the file and when the file has lines left; and it has echoed
\* every stdin line to stdout, mismatch or not.
C30_TestcaseComparesLines ==
    (pc = "done" /\ prog = "testcase" /\ argv # <<>> /\ file.exists) =>
        LET given  == Lines(cin.text)
            wanted == Lines(file.text)
        IN  /\ exit_code = <<0>> <=> given = wanted
            /\ (\E k \in 1..Min(Len(given), Len(wanted)) : given[k] # wanted[k])
                  => exit_code # <<0>>
            /\ Len(given) > Len(wanted) => exit_code # <<0>>
            /\ Len(given) < Len(wanted) => exit_code # <<0>>
            /\ out = given

\* C30 witness: stdin ended after a first line equal to the file's, the
\* file has a line left, and the run has exited 1 after echoing the line.
C30_Witness ==
    /\ pc = "done" /\ prog = "testcase" /\ file.exists
    /\ Len(Lines(cin.text)) = 1 /\ Len(Lines(file.text)) = 2
    /\ Lines(cin.text)[1] = Lines(file.text)[1]
    /\ exit_code = <<1>>
    /\ out = <<Lines(cin.text)[1]>>

====
